---- MODULE Spec2Model ----
(***************************************************************************)
(* UnderByte codec engine (utils/steganography.ts): bit streams, the XOR   *)
(* mask, the pixel LSB codec, the JPEG coefficient codec, the file header  *)
(* framer and the zero-width-character text codec.                         *)
(*                                                                         *)
(* Arrays are 1-based sequences: index i of the source is index i+1 here.  *)
(* Strings are sequences of UTF-16 code units, byte arrays sequences of    *)
(* 0..255, bit arrays sequences of 0..1.                                    *)
(***************************************************************************)
EXTENDS Integers, Sequences, FiniteSets, TLC

VARIABLES
    pc,          \* position of the driver of the component under study
    data,        \* xorEncrypt: data
    password,    \* xorEncrypt: password (string)
    encrypted,   \* result of xorEncrypt(data, password)
    decrypted,   \* result of xorDecrypt(encrypted, password)
    bytes,       \* bytesToBits: bytes
    bits,        \* bytesToBits result / bitsToBytes argument
    outBytes,    \* bitsToBytes result
    width,       \* image width in pixels
    height,      \* image height in pixels
    givenWidth,  \* the number handed to calculateBitCapacity as width
    givenHeight, \* the number handed to calculateBitCapacity as height
    fill,        \* which carrier content the image was loaded with
    imageData,   \* RGBA pixel buffer handed to embedLSB / extractLSB
    messageBits, \* payload bits handed to the embedders
    bitDepth,    \* bits per carrier byte
    capacity,    \* outcome of calculateBitCapacity
    embedded,    \* outcome of embedLSB
    extracted,   \* outcome of extractLSB
    jpegCoefficients, \* originalImage.jpegCoefficients: the loaded JPEG's coefficients
    coeffs,      \* the coefficient set handed to embedInCoefficients
    useChroma,   \* whether chroma components carry payload
    jpegEmbedded,  \* outcome of embedInCoefficients
    jpegExtracted, \* outcome of extractFromCoefficients
    fileName,    \* name of the file to embed (string)
    fileSize,    \* its size in bytes
    sanitizedName, \* result of sanitizeFilename(fileName)
    framedName,  \* the name handed to prepareFileHeader
    header,      \* result of prepareFileHeader
    buffer,      \* the byte array handed to parseFileHeader
    parsed,      \* result of parseFileHeader
    textMessage, \* the message typed on the image page
    framePassword, \* the password on the image page ("" for none)
    shown,       \* what handleDecode ends with: a text, a download or an error
    coverText,   \* visible text handed to encodeText
    secretMessage, \* secret handed to encodeText
    textPassword,  \* password handed to encodeText and decodeText ("" for none)
    encData,     \* encodeText's local data
    stegoText,   \* result of encodeText, handed to decodeText
    decVisible,  \* decodeText's local visibleText
    decData,     \* decodeText's local data
    decoded,     \* outcome of decodeText
    zwcBytes,    \* bytes handed to bytesToZWC
    zwcText,   \* result of bytesToZWC, handed to zwcToBytes
    zwcBack,     \* outcome of zwcToBytes
    inputFormat, \* detected format of the loaded image (a name or null)
    hasOffscreenCanvas, \* whether typeof OffscreenCanvas !== "undefined"
    recommendation, \* result of getRecommendedOutputFormat
    lossy,       \* result of isLossyFormat on the recommended format
    calls,       \* the encodeText and decodeText calls in flight, by caller
    patternLastIndex, \* ZWC_PATTERN.lastIndex: the state of the shared pattern object
    blockHeap,   \* the Int32Array objects of the image UI, by address
    originalImage, \* originalImage.value of the image UI
    encodedImage,  \* encodedImage.value of the image UI
    uiError,     \* error.value of the image UI
    clone,       \* handleEncode's local coeffs: the addresses of the clone
    encryptedPayload, \* handleEncode's local encrypted
    chromaChoice, \* useChroma.value at the time of the encode
    loadedImage  \* the pixel data and coefficient values the image was loaded with

bitVars == <<data, password, encrypted, decrypted, bytes, bits, outBytes>>

pixelVars == <<width, height, givenWidth, givenHeight, fill, imageData, messageBits,
               bitDepth, capacity, embedded, extracted>>

jpegVars == <<jpegCoefficients, coeffs, useChroma, jpegEmbedded, jpegExtracted>>

textFrameVars == <<textMessage, framePassword, shown>>

headerVars == <<fileName, fileSize, sanitizedName, framedName, header, buffer, parsed,
               textFrameVars>>

zwcVars == <<coverText, secretMessage, textPassword, encData, stegoText, decVisible,
             decData, decoded, zwcBytes, zwcText, zwcBack>>

formatVars == <<inputFormat, hasOffscreenCanvas, recommendation, lossy>>

callVars == <<calls, patternLastIndex>>

uiVars == <<blockHeap, originalImage, encodedImage, uiError, clone, encryptedPayload,
            chromaChoice, loadedImage>>

vars == <<pc, bitVars, pixelVars, jpegVars, headerVars, zwcVars, formatVars, callVars,
          uiVars>>

\* what the actions of one component leave alone
exceptBit == <<pixelVars, jpegVars, headerVars, zwcVars, formatVars, callVars, uiVars>>
exceptPixel == <<bitVars, jpegVars, headerVars, zwcVars, formatVars, callVars, uiVars>>
exceptJpeg == <<bitVars, pixelVars, headerVars, zwcVars, formatVars, callVars, uiVars>>
exceptHeader == <<bitVars, pixelVars, jpegVars, zwcVars, formatVars, callVars, uiVars>>
exceptZwc == <<bitVars, pixelVars, jpegVars, headerVars, formatVars, callVars, uiVars>>
exceptFormat == <<bitVars, pixelVars, jpegVars, headerVars, zwcVars, callVars, uiVars>>
exceptCalls == <<bitVars, pixelVars, jpegVars, headerVars, zwcVars, formatVars, uiVars>>
exceptUi == <<bitVars, pixelVars, jpegVars, headerVars, zwcVars, formatVars, callVars>>

----------------------------------------------------------------------------
(* JavaScript integer operators on non-negative operands *)

RECURSIVE Pow2(_)
Pow2(n) == IF n = 0 THEN 1 ELSE 2 * Pow2(n - 1)

\* a << n
Shl(a, n) == a * Pow2(n)

\* a >> n
Shr(a, n) == a \div Pow2(n)

RECURSIVE BitAnd(_, _)
BitAnd(a, b) ==
    IF a = 0 \/ b = 0 THEN 0
    ELSE (a % 2) * (b % 2) + 2 * BitAnd(a \div 2, b \div 2)

RECURSIVE BitOr(_, _)
BitOr(a, b) ==
    IF a = 0 THEN b
    ELSE IF b = 0 THEN a
    ELSE (IF a % 2 = 1 \/ b % 2 = 1 THEN 1 ELSE 0) + 2 * BitOr(a \div 2, b \div 2)

RECURSIVE BitXor(_, _)
BitXor(a, b) ==
    IF a = 0 THEN b
    ELSE IF b = 0 THEN a
    ELSE ((a + b) % 2) + 2 * BitXor(a \div 2, b \div 2)

\* a store into a Uint8Array element
ToUint8(v) == v % 256

----------------------------------------------------------------------------
(* TextEncoder.encode: UTF-16 code units to UTF-8 bytes *)

IsHighSurrogate(u) == u >= 55296 /\ u <= 56319
IsLowSurrogate(u) == u >= 56320 /\ u <= 57343

Utf8OfCodePoint(cp) ==
    IF cp < 128 THEN <<cp>>
    ELSE IF cp < 2048 THEN <<192 + (cp \div 64), 128 + (cp % 64)>>
    ELSE IF cp < 65536 THEN
        <<224 + (cp \div 4096), 128 + ((cp \div 64) % 64), 128 + (cp % 64)>>
    ELSE <<240 + (cp \div 262144), 128 + ((cp \div 4096) % 64),
           128 + ((cp \div 64) % 64), 128 + (cp % 64)>>

\* the bytes the code unit at position i (1-based) contributes: a surrogate
\* pair is encoded at its high half, an unpaired surrogate becomes U+FFFD
Utf8OfUnit(str, i) ==
    IF IsHighSurrogate(str[i]) /\ i < Len(str) /\ IsLowSurrogate(str[i + 1])
        THEN Utf8OfCodePoint(65536 + (str[i] - 55296) * 1024 + (str[i + 1] - 56320))
    ELSE IF IsLowSurrogate(str[i]) /\ i > 1 /\ IsHighSurrogate(str[i - 1])
        THEN <<>>
    ELSE IF IsHighSurrogate(str[i]) \/ IsLowSurrogate(str[i])
        THEN Utf8OfCodePoint(65533)
    ELSE Utf8OfCodePoint(str[i])

RECURSIVE Utf8EncodeRange(_, _, _)
Utf8EncodeRange(str, lo, hi) ==
    IF hi < lo THEN <<>>
    ELSE IF hi = lo THEN Utf8OfUnit(str, lo)
    ELSE LET mid == (lo + hi) \div 2
         IN  Utf8EncodeRange(str, lo, mid) \o Utf8EncodeRange(str, mid + 1, hi)

Utf8Encode(str) == Utf8EncodeRange(str, 1, Len(str))

----------------------------------------------------------------------------
(* new TextDecoder("utf-8", { fatal: false }).decode: UTF-8 bytes to UTF-16   *)
(* code units, an ill-formed sequence replaced by U+FFFD, a leading byte     *)
(* order mark dropped                                                        *)

\* byte k (0-based) exists and lies in lo..hi
ByteIn(bs, k, lo, hi) == k < Len(bs) /\ bs[k + 1] >= lo /\ bs[k + 1] <= hi

Utf16OfCodePoint(cp) ==
    IF cp < 65536 THEN <<cp>>
    ELSE <<55296 + ((cp - 65536) \div 1024), 56320 + ((cp - 65536) % 1024)>>

\* the decoder at byte k (0-based); st.i is the next byte to decode
Utf8DecodeStep(st, bs, k) ==
    IF st.i # k THEN st
    ELSE LET b == bs[k + 1]
             Bad(n) == [out |-> Append(st.out, 65533), i |-> k + n, bad |-> TRUE]
             Good(cp, n) == [out |-> st.out \o Utf16OfCodePoint(cp), i |-> k + n,
                             bad |-> st.bad]
         IN  IF b < 128 THEN Good(b, 1)
             ELSE IF b >= 194 /\ b <= 223 THEN
                 IF ByteIn(bs, k + 1, 128, 191)
                 THEN Good((b - 192) * 64 + (bs[k + 2] - 128), 2)
                 ELSE Bad(1)
             ELSE IF b >= 224 /\ b <= 239 THEN
                 IF ~ByteIn(bs, k + 1, IF b = 224 THEN 160 ELSE 128,
                                       IF b = 237 THEN 159 ELSE 191)
                 THEN Bad(1)
                 ELSE IF ~ByteIn(bs, k + 2, 128, 191) THEN Bad(2)
                 ELSE Good((b - 224) * 4096 + (bs[k + 2] - 128) * 64 + (bs[k + 3] - 128), 3)
             ELSE IF b >= 240 /\ b <= 244 THEN
                 IF ~ByteIn(bs, k + 1, IF b = 240 THEN 144 ELSE 128,
                                       IF b = 244 THEN 143 ELSE 191)
                 THEN Bad(1)
                 ELSE IF ~ByteIn(bs, k + 2, 128, 191) THEN Bad(2)
                 ELSE IF ~ByteIn(bs, k + 3, 128, 191) THEN Bad(3)
                 ELSE Good((b - 240) * 262144 + (bs[k + 2] - 128) * 4096
                               + (bs[k + 3] - 128) * 64 + (bs[k + 4] - 128), 4)
             ELSE Bad(1)

RECURSIVE Utf8DecodeRange(_, _, _, _)
Utf8DecodeRange(st, bs, lo, hi) ==
    IF hi <= lo THEN st
    ELSE IF hi = lo + 1 THEN Utf8DecodeStep(st, bs, lo)
    ELSE LET mid == (lo + hi) \div 2
             first == Utf8DecodeRange(st, bs, lo, mid)
         IN  IF first.i >= hi THEN first
             ELSE Utf8DecodeRange(first, bs, mid, hi)

\* the decoder's output before the byte order mark is dropped, and whether
\* any sequence was ill-formed
Utf8DecodeAll(bs) == Utf8DecodeRange([out |-> <<>>, i |-> 0, bad |-> FALSE], bs, 0, Len(bs))

StripBOM(out) == IF Len(out) > 0 /\ out[1] = 65279 THEN SubSeq(out, 2, Len(out)) ELSE out

Utf8Decode(bs) == StripBOM(Utf8DecodeAll(bs).out)

----------------------------------------------------------------------------
(* CipherMask *)

xorEncryptOrMask(d, pw) ==
    IF Len(pw) = 0 THEN d
    ELSE LET passwordBytes == Utf8Encode(pw)
         IN  [i \in 1..Len(d) |->
                 ToUint8(BitOr(d[i], passwordBytes[((i - 1) % Len(passwordBytes)) + 1]))]

xorEncrypt(d, pw) ==
    IF Len(pw) = 0 THEN d
    ELSE LET passwordBytes == Utf8Encode(pw)
         IN  [i \in 1..Len(d) |->
                 ToUint8(BitXor(d[i], passwordBytes[((i - 1) % Len(passwordBytes)) + 1]))]

xorDecrypt(d, pw) == xorEncrypt(d, pw)

----------------------------------------------------------------------------
(* BitStream *)

bytesToBitsMsbFirst(b) ==
    [k \in 1..(Len(b) * 8) |->
        BitAnd(Shr(b[((k - 1) \div 8) + 1], 7 - ((k - 1) % 8)), 1)]

bytesToBits(b) ==
    [k \in 1..(Len(b) * 8) |->
        BitAnd(Shr(b[((k - 1) \div 8) + 1], (k - 1) % 8), 1)]

RECURSIVE PackByte(_, _, _, _)
PackByte(bs, i, j, byte) ==
    IF j >= 8 THEN byte
    ELSE LET bitIndex == i * 8 + j
         IN  PackByte(bs, i, j + 1,
                 IF bitIndex < Len(bs)
                 THEN BitOr(byte, Shl(BitAnd(bs[bitIndex + 1], 1), j))
                 ELSE byte)

bitsToBytes(bs) ==
    LET byteCount == Len(bs) \div 8
    IN  [i \in 1..byteCount |-> ToUint8(PackByte(bs, i - 1, 0, 0))]

----------------------------------------------------------------------------
(* Outcome of a call: a returned value or a thrown Error *)

Returned(v) == [threw |-> FALSE, error |-> "", value |-> v]
Threw(msg) == [threw |-> TRUE, error |-> msg, value |-> <<>>]
NotCalled == [threw |-> FALSE, error |-> "not called", value |-> <<>>]

----------------------------------------------------------------------------
(* Output format.  A format argument is a record [isNull, name]: null, or *)
(* the string name.                                                         *)

NullFormat == [isNull |-> TRUE, name |-> ""]

Named(name) == [isNull |-> FALSE, name |-> name]

\* format.toLowerCase(), on the names the model uses
ToLowerCase(name) ==
    CASE name = "PNG" -> "png"
      [] name = "JPEG" -> "jpeg"
      [] name = "Jpeg" -> "jpeg"
      [] name = "WEBP" -> "webp"
      [] name = "WebP" -> "webp"
      [] name = "GIF" -> "gif"
      [] OTHER -> name

LossyFormats == {"jpeg", "webp"}

isLossyFormat(format) ==
    IF format.isNull \/ format.name = "" THEN FALSE
    ELSE ToLowerCase(format.name) \in LossyFormats

getRecommendedOutputFormat(format, useWebP) ==
    IF ~format.isNull /\ format.name # "" /\ isLossyFormat(format)
    THEN [format |-> IF useWebP THEN "webp" ELSE "png",
          reason |-> "original format is lossy",
          useWebP |-> useWebP]
    ELSE [format |-> IF useWebP THEN "webp" ELSE "png",
          reason |-> "preserves hidden data perfectly",
          useWebP |-> useWebP]

----------------------------------------------------------------------------
(* Capacity and validation *)

MAX_IMAGE_DIMENSION == 10000

\* JavaScript numbers: a finite number is held as twice its value, so that
\* halves are numbers too; NaN and the infinities are numbers of their own
Number(n) == [kind |-> "finite", twice |-> 2 * n]
Half(n) == [kind |-> "finite", twice |-> n]
NaN == [kind |-> "NaN", twice |-> 0]
PositiveInfinity == [kind |-> "Infinity", twice |-> 0]
NegativeInfinity == [kind |-> "-Infinity", twice |-> 0]

\* Number.isInteger(x)
IsInteger(x) == x.kind = "finite" /\ x.twice % 2 = 0

\* x <= 0
LessOrEqualZero(x) == x.kind = "-Infinity" \/ (x.kind = "finite" /\ x.twice <= 0)

\* x > n for an integer n
GreaterThan(x, n) == x.kind = "Infinity" \/ (x.kind = "finite" /\ x.twice > 2 * n)

\* the value of a number that passed Number.isInteger
IntegerOf(x) == x.twice \div 2

\* validateImageDimensions without its test against MAX_IMAGE_DIMENSION
validateImageDimensionsNoCeiling(w, h) ==
    IF LessOrEqualZero(w) \/ LessOrEqualZero(h) \/ ~IsInteger(w) \/ ~IsInteger(h)
        THEN Threw("Invalid image dimensions")
    ELSE Returned(<<>>)

validateImageDimensions(w, h) ==
    IF LessOrEqualZero(w) \/ LessOrEqualZero(h) \/ ~IsInteger(w) \/ ~IsInteger(h)
        THEN Threw("Invalid image dimensions")
    ELSE IF GreaterThan(w, MAX_IMAGE_DIMENSION) \/ GreaterThan(h, MAX_IMAGE_DIMENSION)
        THEN Threw("Image dimensions too large")
    ELSE IF IntegerOf(w) * IntegerOf(h) > MAX_IMAGE_DIMENSION * MAX_IMAGE_DIMENSION
        THEN Threw("Image size too large")
    ELSE Returned(<<>>)

calculateBitCapacity(w, h, d) ==
    IF validateImageDimensions(w, h).threw THEN validateImageDimensions(w, h)
    ELSE Returned((IntegerOf(w) * IntegerOf(h) * 3 * d) \div 8)

----------------------------------------------------------------------------
(* Filename sanitation *)

MAX_FILENAME_LENGTH == 255

\* "file"
DefaultName == <<102, 105, 108, 101>>

\* the characters of /[/\\?%*:|"<>]/
IsHazard(u) == u \in {47, 92, 63, 37, 42, 58, 124, 34, 60, 62}

\* what String.prototype.trim removes: WhiteSpace and LineTerminator
IsWhiteSpace(u) ==
    \/ u \in {9, 10, 11, 12, 13, 32, 160, 5760, 8232, 8233, 8239, 8287, 12288, 65279}
    \/ (u >= 8192 /\ u <= 8202)

IsKept(u) == ~IsHazard(u)

\* str.substring(from, to), 0-based, to exclusive, arguments clamped
Substring(str, from, to) ==
    LET lo == IF from < 0 THEN 0 ELSE IF from > Len(str) THEN Len(str) ELSE from
        hi == IF to < 0 THEN 0 ELSE IF to > Len(str) THEN Len(str) ELSE to
    IN  IF lo <= hi THEN SubSeq(str, lo + 1, hi) ELSE SubSeq(str, hi + 1, lo)

SetMin(S) == CHOOSE x \in S : \A y \in S : x <= y
SetMax(S) == CHOOSE x \in S : \A y \in S : x >= y

\* .replace(/^\.+/, "")
StripLeadingDots(str) ==
    LET other == {i \in 1..Len(str) : str[i] # 46}
    IN  IF other = {} THEN <<>> ELSE SubSeq(str, SetMin(other), Len(str))

\* .trim()
Trim(str) ==
    LET solid == {i \in 1..Len(str) : ~IsWhiteSpace(str[i])}
    IN  IF solid = {} THEN <<>> ELSE SubSeq(str, SetMin(solid), SetMax(solid))

\* str.lastIndexOf("."), 0-based, -1 when there is none
LastIndexOfDot(str) ==
    LET dots == {i \in 1..Len(str) : str[i] = 46}
    IN  IF dots = {} THEN -1 ELSE SetMax(dots) - 1

sanitizeFilename(filename) ==
    IF Len(filename) = 0 THEN DefaultName
    ELSE LET sanitized == Trim(StripLeadingDots(SelectSeq(filename, IsKept)))
         IN  IF Len(sanitized) = 0 THEN DefaultName
             ELSE IF Len(sanitized) > MAX_FILENAME_LENGTH THEN
                 LET ext == LastIndexOfDot(sanitized)
                 IN  IF ext > 0
                     THEN LET name == Substring(sanitized, 0, ext)
                              extension == Substring(sanitized, ext, Len(sanitized))
                          IN  Substring(name, 0, MAX_FILENAME_LENGTH - Len(extension))
                                  \o extension
                     ELSE Substring(sanitized, 0, MAX_FILENAME_LENGTH)
             ELSE sanitized

----------------------------------------------------------------------------
(* FileHeader framer.  A byte array handed to parseFileHeader is a record   *)
(* [prefix, length]: length bytes, the first Len(prefix) of them prefix and  *)
(* the rest (file payload) zero.                                             *)

MAX_EMBED_FILE_SIZE == 10485760

MagicByte == 85

\* view.setUint32(offset, v, true): the four bytes, least significant first
Uint32LE(v) ==
    <<v % 256, (v \div 256) % 256, (v \div 65536) % 256, (v \div 16777216) % 256>>

\* the size written most significant byte first
prepareFileHeaderBigEndian(name, size) ==
    LET fileNameBytes == Utf8Encode(name)
        le == Uint32LE(size)
    IN  <<MagicByte, ToUint8(Len(fileNameBytes))>> \o fileNameBytes
            \o <<le[4], le[3], le[2], le[1]>>

prepareFileHeader(name, size) ==
    LET fileNameBytes == Utf8Encode(name)
    IN  <<MagicByte, ToUint8(Len(fileNameBytes))>> \o fileNameBytes \o Uint32LE(size)

ByteAt(buf, i) == IF i < Len(buf.prefix) THEN buf.prefix[i + 1] ELSE 0

\* bytes.slice(from, to), to clamped to the length
Slice(buf, from, to) ==
    LET end == IF to > buf.length THEN buf.length ELSE to
    IN  [k \in 1..(end - from) |-> ByteAt(buf, from + k - 1)]

\* view.getUint32(offset, true); a value of 2^31 or more is reported as
\* 2^31 - 1, which compares with every bound of the code as the value does
GetUint32LE(buf, offset) ==
    IF ByteAt(buf, offset + 3) >= 128 THEN 2147483647
    ELSE ByteAt(buf, offset) + 256 * ByteAt(buf, offset + 1)
             + 65536 * ByteAt(buf, offset + 2) + 16777216 * ByteAt(buf, offset + 3)

\* what a call of parseFileHeader comes to: null, a header, or an exception
NoHeader ==
    [threw |-> FALSE, found |-> FALSE, fileName |-> <<>>, fileSize |-> 0,
     payloadOffset |-> 0]

Header(name, size, offset) ==
    [threw |-> FALSE, found |-> TRUE, fileName |-> name, fileSize |-> size,
     payloadOffset |-> offset]

\* the RangeError of a DataView read that reaches past the end
HeaderRaised ==
    [threw |-> TRUE, found |-> FALSE, fileName |-> <<>>, fileSize |-> 0,
     payloadOffset |-> 0]

\* parseFileHeader without the test of bytes.length against 2 + nameLen + 4
parseFileHeaderUnchecked(buf) ==
    IF buf.length < 2 \/ ByteAt(buf, 0) # MagicByte THEN NoHeader
    ELSE LET nameLen == ByteAt(buf, 1)
         IN  IF nameLen > MAX_FILENAME_LENGTH THEN NoHeader
             ELSE LET name == Utf8Decode(Slice(buf, 2, 2 + nameLen))
                      size == GetUint32LE(buf, 2 + nameLen)
                      payloadOffset == 2 + nameLen + 4
                  IN  IF Len(name) = 0 THEN NoHeader
                      ELSE IF buf.length < 2 + nameLen + 4 THEN HeaderRaised
                      ELSE IF size > MAX_EMBED_FILE_SIZE \/ size <= 0 THEN NoHeader
                      ELSE IF buf.length < payloadOffset + size THEN NoHeader
                      ELSE Header(sanitizeFilename(name), size, payloadOffset)

parseFileHeader(buf) ==
    IF buf.length < 2 \/ ByteAt(buf, 0) # MagicByte THEN NoHeader
    ELSE LET nameLen == ByteAt(buf, 1)
         IN  IF nameLen > MAX_FILENAME_LENGTH \/ buf.length < 2 + nameLen + 4 THEN NoHeader
             ELSE LET name == Utf8Decode(Slice(buf, 2, 2 + nameLen))
                      size == GetUint32LE(buf, 2 + nameLen)
                      payloadOffset == 2 + nameLen + 4
                  IN  IF Len(name) = 0 THEN NoHeader
                      \* view.getUint32 throws if it reads past the end
                      ELSE IF buf.length < 2 + nameLen + 4 THEN HeaderRaised
                      ELSE IF size > MAX_EMBED_FILE_SIZE \/ size <= 0 THEN NoHeader
                      ELSE IF buf.length < payloadOffset + size THEN NoHeader
                      ELSE Header(sanitizeFilename(name), size, payloadOffset)

\* what handleDecode ends with
NothingShown == [kind |-> "none", text |-> <<>>, fileName |-> <<>>, payload |-> <<>>]
ShownText(text) == [kind |-> "text", text |-> text, fileName |-> <<>>, payload |-> <<>>]
ShownError == [kind |-> "error", text |-> <<>>, fileName |-> <<>>, payload |-> <<>>]
Download(name, content) ==
    [kind |-> "file", text |-> <<>>, fileName |-> name, payload |-> content]

\* the limit of handleDecode on the length prefix of a text
MaxShownTextLength == 1000000

\* dataToEncode of handleEncode in text mode: the length of the UTF-8 bytes
\* in four bytes, least significant first, and the bytes
FrameText(message) == Uint32LE(Len(Utf8Encode(message))) \o Utf8Encode(message)

\* handleDecode on the decrypted bytes: the file header is tried first, then
\* the text frame
DecodeExtracted(buf) ==
    LET h == parseFileHeader(buf)
    IN  IF h.threw THEN ShownError
        ELSE IF h.found
        THEN IF buf.length < h.payloadOffset + h.fileSize THEN ShownError
             ELSE Download(h.fileName,
                           Slice(buf, h.payloadOffset, h.payloadOffset + h.fileSize))
        ELSE IF buf.length < 4 THEN ShownError
        ELSE LET textLength == GetUint32LE(buf, 0)
             IN  IF textLength > buf.length - 4 \/ textLength > MaxShownTextLength
                 THEN ShownError
                 ELSE ShownText(Utf8Decode(Slice(buf, 4, 4 + textLength)))

----------------------------------------------------------------------------
(* PixelLSBCodec *)

\* Math.floor((imageData.length / 4) * 3) * bitDepth
MaxBitsOf(img, d) == ((Len(img) * 3) \div 4) * d

\* the inner loop of embedLSB: <<bitsToEmbed, bitIndex>> after it
RECURSIVE GatherBits(_, _, _, _, _)
GatherBits(msg, d, j, bitIndex, bitsToEmbed) ==
    IF j < d /\ bitIndex < Len(msg)
    THEN GatherBits(msg, d, j + 1, bitIndex + 1,
             BitOr(bitsToEmbed, Shl(BitAnd(msg[bitIndex + 1], 1), j)))
    ELSE <<bitsToEmbed, bitIndex>>

\* one iteration of the outer loop of embedLSB at byte index i; once the
\* condition bitIndex < messageBits.length fails the loop has ended
EmbedStep(st, msg, d, mask, i) ==
    IF ~(st.bitIndex < Len(msg)) THEN st
    ELSE IF i % 4 = 3 THEN st
    ELSE LET g == GatherBits(msg, d, 0, st.bitIndex, 0)
         IN  [result |-> [st.result EXCEPT
                             ![i + 1] = ToUint8(BitOr(BitAnd(st.result[i + 1], mask), g[1]))],
              bitIndex |-> g[2]]

\* the iterations lo <= i < hi of the outer loop of embedLSB, in order
RECURSIVE EmbedRange(_, _, _, _, _, _)
EmbedRange(st, msg, d, mask, lo, hi) ==
    IF hi <= lo THEN st
    ELSE IF hi = lo + 1 THEN EmbedStep(st, msg, d, mask, lo)
    ELSE LET mid == (lo + hi) \div 2
             first == EmbedRange(st, msg, d, mask, lo, mid)
         IN  IF ~(first.bitIndex < Len(msg)) THEN first
             ELSE EmbedRange(first, msg, d, mask, mid, hi)

\* for (let i = 0; i < imageData.length && bitIndex < messageBits.length; i++)
EmbedLoop(img, msg, d, mask) ==
    EmbedRange([result |-> img, bitIndex |-> 0], msg, d, mask, 0, Len(img)).result

\* embedLSB with the capacity test off by one (>= for >)
embedLSBStrict(img, msg, d) ==
    IF d < 1 \/ d > 4
    THEN Threw("Bit depth must be between 1 and 4") @@ [imageData |-> img]
    ELSE IF Len(msg) >= MaxBitsOf(img, d)
    THEN Threw("Message too large") @@ [imageData |-> img]
    ELSE Returned(EmbedLoop(img, msg, d, Shl(255, d))) @@ [imageData |-> img]

\* embedLSB with a clear-mask one bit too wide
embedLSBWideMask(img, msg, d) ==
    IF d < 1 \/ d > 4
    THEN Threw("Bit depth must be between 1 and 4") @@ [imageData |-> img]
    ELSE IF Len(msg) > MaxBitsOf(img, d)
    THEN Threw("Message too large") @@ [imageData |-> img]
    ELSE Returned(EmbedLoop(img, msg, d, Shl(255, d + 1))) @@ [imageData |-> img]

\* embedLSB: the outcome, and in field imageData the content of the caller's
\* buffer after the call (the code writes into a copy, new Uint8Array(imageData))
embedLSB(img, msg, d) ==
    IF d < 1 \/ d > 4
    THEN Threw("Bit depth must be between 1 and 4") @@ [imageData |-> img]
    ELSE IF Len(msg) > MaxBitsOf(img, d)
    THEN Threw("Message too large") @@ [imageData |-> img]
    ELSE LET mask == Shl(255, d)
         IN  Returned(EmbedLoop(img, msg, d, mask)) @@ [imageData |-> img]

\* (imageData[i] >> j) & 1, read one position too high
ExtractBitOffByOne(byte, j) == BitAnd(Shr(byte, j + 1), 1)

\* (imageData[i] >> j) & 1
ExtractBit(byte, j) == BitAnd(Shr(byte, j), 1)

\* the inner loop of extractLSB at byte index i: <<bits, bitIndex>> after it
RECURSIVE ReadBits(_, _, _, _, _, _, _)
ReadBits(out, img, d, actualBitCount, i, j, bitIndex) ==
    IF j < d /\ bitIndex < actualBitCount
    THEN ReadBits([out EXCEPT ![bitIndex + 1] = ExtractBit(img[i + 1], j)],
                  img, d, actualBitCount, i, j + 1, bitIndex + 1)
    ELSE <<out, bitIndex>>

\* one iteration of the outer loop of extractLSB at byte index i
ExtractStep(st, img, d, actualBitCount, i) ==
    IF ~(st.bitIndex < actualBitCount) THEN st
    ELSE IF i % 4 = 3 THEN st
    ELSE LET r == ReadBits(st.bits, img, d, actualBitCount, i, 0, st.bitIndex)
         IN  [bits |-> r[1], bitIndex |-> r[2]]

\* the iterations lo <= i < hi of the outer loop of extractLSB, in order
RECURSIVE ExtractRange(_, _, _, _, _, _)
ExtractRange(st, img, d, actualBitCount, lo, hi) ==
    IF hi <= lo THEN st
    ELSE IF hi = lo + 1 THEN ExtractStep(st, img, d, actualBitCount, lo)
    ELSE LET mid == (lo + hi) \div 2
             first == ExtractRange(st, img, d, actualBitCount, lo, mid)
         IN  IF ~(first.bitIndex < actualBitCount) THEN first
             ELSE ExtractRange(first, img, d, actualBitCount, mid, hi)

extractLSB(img, bitCount, d) ==
    IF d < 1 \/ d > 4 THEN Threw("Bit depth must be between 1 and 4")
    ELSE LET maxBits == MaxBitsOf(img, d)
             actualBitCount == IF bitCount < maxBits THEN bitCount ELSE maxBits
         IN  Returned(ExtractRange([bits |-> [k \in 1..bitCount |-> 0], bitIndex |-> 0],
                                   img, d, actualBitCount, 0, Len(img)).bits)

----------------------------------------------------------------------------
(* JPEGCoefficientCodec.  A coefficient set is a sequence of components      *)
(* [id, blocks], blocks a sequence of rows, a row a sequence of blocks, a    *)
(* block a sequence of BlockSize integers.                                   *)

BlockSize == 64

\* the greatest and the least value of an Int32Array element
Int32Max == 2147483647

Int32Min == -Int32Max - 1

Abs(x) == IF x < 0 THEN -x ELSE x

\* Math.abs(x) & 1: the operands of & are taken as 32-bit integers, and
\* Math.abs of the least one, 2^31, is taken as the least one again
LowBitOfAbs(x) == IF x = Int32Min THEN 0 ELSE BitAnd(Abs(x), 1)

\* -x as the 32-bit operand of | and &
Int32OfNegated(x) == IF x = Int32Min THEN Int32Min ELSE -x

\* x | 1 for a 32-bit x
Or1(x) == IF x >= 0 THEN BitOr(x, 1) ELSE x + 1 - (x % 2)

\* x & ~1 for a 32-bit x
AndNot1(x) == IF x >= 0 THEN BitAnd(x, 2147483646) ELSE x - (x % 2)

\* block[i] = v in block b of row r of component c
StoreCoefficient(cs, c, r, b, i, v) ==
    [cs EXCEPT ![c].blocks[r][b][i + 1] = v]

\* every non-zero coefficient taken as a carrier
UsableForEmbedNonZero(coeff) == coeff # 0

\* coeff !== 0 && coeff !== 1 && coeff !== -1, in embedInCoefficients
UsableForEmbed(coeff) == coeff # 0 /\ coeff # 1 /\ coeff # -1

\* the loop body with a negative coefficient handled as a positive one is,
\* on its two's complement value: coeff | 1 and coeff & ~1
EmbedCoefficientTwosComplement(st, msg, c, r, b, i) ==
    LET coeff == st.coefficients[c].blocks[r][b][i + 1]
    IN  IF ~(st.bitIndex < Len(msg)) THEN st
        ELSE IF ~UsableForEmbed(coeff) THEN st
        ELSE LET messageBit == BitAnd(msg[st.bitIndex + 1], 1)
                 coeffLSB == LowBitOfAbs(coeff)
                 new == IF coeffLSB = messageBit THEN coeff
                        ELSE IF messageBit = 1 THEN coeff + 1 ELSE coeff - 1
             IN  IF new = 0 \/ new = 1
                 THEN st
                 ELSE [coefficients |->
                           StoreCoefficient(st.coefficients, c, r, b, i, new),
                       bitIndex |-> st.bitIndex + 1]

\* the body of the loop over i in embedInCoefficients
EmbedCoefficient(st, msg, c, r, b, i) ==
    LET coeff == st.coefficients[c].blocks[r][b][i + 1]
    IN  IF ~(st.bitIndex < Len(msg)) THEN st
        ELSE IF ~UsableForEmbed(coeff) THEN st
        ELSE LET messageBit == BitAnd(msg[st.bitIndex + 1], 1)
                 coeffLSB == LowBitOfAbs(coeff)
             IN  IF coeffLSB = messageBit
                 THEN [st EXCEPT !.bitIndex = @ + 1]
                 ELSE IF coeff > 0
                 THEN LET new == IF messageBit = 1 THEN Or1(coeff) ELSE AndNot1(coeff)
                      IN  IF new = 0 \/ new = 1
                          THEN st     \* block[i] = coeff; continue
                          ELSE [coefficients |->
                                    StoreCoefficient(st.coefficients, c, r, b, i, new),
                                bitIndex |-> st.bitIndex + 1]
                 ELSE LET absCoeff == Int32OfNegated(coeff)
                          newAbs == IF messageBit = 1 THEN Or1(absCoeff)
                                    ELSE AndNot1(absCoeff)
                      IN  IF newAbs = 0 \/ newAbs = 1
                          THEN st     \* continue
                          ELSE [coefficients |->
                                    StoreCoefficient(st.coefficients, c, r, b, i, -newAbs),
                                bitIndex |-> st.bitIndex + 1]

\* the iterations lo <= i < hi of: for (let i = 1; i < 64 && bitIndex < length; i++)
RECURSIVE EmbedIndexRange(_, _, _, _, _, _, _)
EmbedIndexRange(st, msg, c, r, b, lo, hi) ==
    IF hi <= lo THEN st
    ELSE IF hi = lo + 1 THEN EmbedCoefficient(st, msg, c, r, b, lo)
    ELSE LET mid == (lo + hi) \div 2
             first == EmbedIndexRange(st, msg, c, r, b, lo, mid)
         IN  IF ~(first.bitIndex < Len(msg)) THEN first
             ELSE EmbedIndexRange(first, msg, c, r, b, mid, hi)

\* for (const block of row), from block b on
RECURSIVE EmbedBlocks(_, _, _, _, _)
EmbedBlocks(st, msg, c, r, b) ==
    IF b > Len(st.coefficients[c].blocks[r]) THEN st
    ELSE IF st.bitIndex >= Len(msg) THEN st
    ELSE EmbedBlocks(EmbedIndexRange(st, msg, c, r, b, 1, BlockSize), msg, c, r, b + 1)

\* for (const row of component.blocks), from row r on
RECURSIVE EmbedRows(_, _, _, _)
EmbedRows(st, msg, c, r) ==
    IF r > Len(st.coefficients[c].blocks) THEN st
    ELSE IF st.bitIndex >= Len(msg) THEN st
    ELSE EmbedRows(EmbedBlocks(st, msg, c, r, 1), msg, c, r + 1)

\* the loop over the components without its test of useChroma
RECURSIVE EmbedComponentsAnyId(_, _, _, _)
EmbedComponentsAnyId(st, msg, chroma, c) ==
    IF c > Len(st.coefficients) THEN st
    ELSE IF st.bitIndex >= Len(msg) THEN st
    ELSE EmbedComponentsAnyId(EmbedRows(st, msg, c, 1), msg, chroma, c + 1)

\* for (const component of coefficients.components), from component c on
RECURSIVE EmbedComponents(_, _, _, _)
EmbedComponents(st, msg, chroma, c) ==
    IF c > Len(st.coefficients) THEN st
    ELSE IF st.bitIndex >= Len(msg) THEN st
    ELSE IF ~chroma /\ st.coefficients[c].id # 1
        THEN EmbedComponents(st, msg, chroma, c + 1)
    ELSE EmbedComponents(EmbedRows(st, msg, c, 1), msg, chroma, c + 1)

\* embedInCoefficients: the outcome, and in field coefficients the content of
\* the caller's coefficient set after the call (the blocks are written in place)
embedInCoefficients(cs, msg, chroma) ==
    LET st == EmbedComponents([coefficients |-> cs, bitIndex |-> 0], msg, chroma, 1)
    IN  IF st.bitIndex < Len(msg)
        THEN Threw("Message too large") @@ [coefficients |-> st.coefficients]
        ELSE Returned(st.coefficients) @@ [coefficients |-> st.coefficients]

\* the usable test of extractFromCoefficients with the magnitude-1 case forgotten
UsableForExtractNonZero(coeff) == coeff # 0

\* coeff !== 0 && coeff !== 1 && coeff !== -1, in extractFromCoefficients
UsableForExtract(coeff) == coeff # 0 /\ coeff # 1 /\ coeff # -1

\* the body of the loop over i in extractFromCoefficients
ExtractCoefficient(st, cs, bitCount, c, r, b, i) ==
    LET coeff == cs[c].blocks[r][b][i + 1]
    IN  IF ~(st.bitIndex < bitCount) THEN st
        ELSE IF ~UsableForExtract(coeff) THEN st
        ELSE [bits |-> [st.bits EXCEPT ![st.bitIndex + 1] = LowBitOfAbs(coeff)],
              bitIndex |-> st.bitIndex + 1]

RECURSIVE ExtractIndexRange(_, _, _, _, _, _, _, _)
ExtractIndexRange(st, cs, bitCount, c, r, b, lo, hi) ==
    IF hi <= lo THEN st
    ELSE IF hi = lo + 1 THEN ExtractCoefficient(st, cs, bitCount, c, r, b, lo)
    ELSE LET mid == (lo + hi) \div 2
             first == ExtractIndexRange(st, cs, bitCount, c, r, b, lo, mid)
         IN  IF ~(first.bitIndex < bitCount) THEN first
             ELSE ExtractIndexRange(first, cs, bitCount, c, r, b, mid, hi)

RECURSIVE ExtractBlocks(_, _, _, _, _, _)
ExtractBlocks(st, cs, bitCount, c, r, b) ==
    IF b > Len(cs[c].blocks[r]) THEN st
    ELSE IF st.bitIndex >= bitCount THEN st
    ELSE ExtractBlocks(ExtractIndexRange(st, cs, bitCount, c, r, b, 1, BlockSize),
                       cs, bitCount, c, r, b + 1)

RECURSIVE ExtractRows(_, _, _, _, _)
ExtractRows(st, cs, bitCount, c, r) ==
    IF r > Len(cs[c].blocks) THEN st
    ELSE IF st.bitIndex >= bitCount THEN st
    ELSE ExtractRows(ExtractBlocks(st, cs, bitCount, c, r, 1), cs, bitCount, c, r + 1)

RECURSIVE ExtractComponents(_, _, _, _, _)
ExtractComponents(st, cs, bitCount, chroma, c) ==
    IF c > Len(cs) THEN st
    ELSE IF st.bitIndex >= bitCount THEN st
    ELSE IF ~chroma /\ cs[c].id # 1
        THEN ExtractComponents(st, cs, bitCount, chroma, c + 1)
    ELSE ExtractComponents(ExtractRows(st, cs, bitCount, c, 1), cs, bitCount, chroma, c + 1)

extractFromCoefficients(cs, bitCount, chroma) ==
    Returned(ExtractComponents([bits |-> [k \in 1..bitCount |-> 0], bitIndex |-> 0],
                               cs, bitCount, chroma, 1).bits)

\* the positions of a coefficient set: component, row, block, index (1-based)
Positions(cs) ==
    UNION {UNION {{<<c, r, b, i>> : b \in 1..Len(cs[c].blocks[r]), i \in 1..BlockSize} :
                     r \in 1..Len(cs[c].blocks)} :
              c \in 1..Len(cs)}

CoefficientAt(cs, p) == cs[p[1]].blocks[p[2]][p[3]][p[4]]

\* calculateJpegCoefficientCapacity: the AC coefficients other than 0, 1 and
\* -1 of the components that carry payload, counted, in whole bytes
\* bitCount at the end of the loops of calculateJpegCoefficientCapacity
UsableCoefficientCount(cs, chroma) ==
    Cardinality({p \in Positions(cs) :
                    /\ chroma \/ cs[p[1]].id = 1
                    /\ p[4] # 1
                    /\ CoefficientAt(cs, p) # 0
                    /\ CoefficientAt(cs, p) # 1
                    /\ CoefficientAt(cs, p) # -1})

calculateJpegCoefficientCapacity(cs, chroma) == UsableCoefficientCount(cs, chroma) \div 8

\* cloneJpegCoefficients: every block copied into a new Int32Array
cloneJpegCoefficients(cs) ==
    [c \in 1..Len(cs) |->
        [id |-> cs[c].id,
         blocks |-> [r \in 1..Len(cs[c].blocks) |->
                        [b \in 1..Len(cs[c].blocks[r]) |->
                            [i \in 1..Len(cs[c].blocks[r][b]) |-> cs[c].blocks[r][b][i]]]]]]

----------------------------------------------------------------------------
(* ZWCTextCodec: the collaborators.  compress and decompress stand for the  *)
(* platform's "deflate" streams: compress emits a zlib stream of one stored  *)
(* block, decompress accepts exactly such streams.  encrypt and decrypt      *)
(* stand for AES-256-CTR under a PBKDF2 key: a keystream determined by       *)
(* password, salt and counter, XORed onto the data.                          *)

AdlerModulus == 65521

RECURSIVE SumRange(_, _, _)
SumRange(f, lo, hi) ==
    IF hi < lo THEN 0
    ELSE IF hi = lo THEN f[lo]
    ELSE LET mid == (lo + hi) \div 2
         IN  SumRange(f, lo, mid) + SumRange(f, mid + 1, hi)

\* the Adler-32 checksum, most significant byte first
Adler32(bs) ==
    LET n == Len(bs)
        a == (1 + SumRange(bs, 1, n)) % AdlerModulus
        b == (n + SumRange([i \in 1..n |-> (n - i + 1) * bs[i]], 1, n)) % AdlerModulus
    IN  <<b \div 256, b % 256, a \div 256, a % 256>>

\* zlib header (CMF, FLG) and the header byte of a final stored block
ZlibHeader == <<120, 1, 1>>

compress(bs) ==
    LET n == Len(bs)
    IN  ZlibHeader \o <<n % 256, n \div 256, 255 - (n % 256), 255 - (n \div 256)>>
            \o bs \o Adler32(bs)

decompress(bs) ==
    IF Len(bs) < 11 \/ SubSeq(bs, 1, 3) # ZlibHeader
        THEN Threw("Decoding failed: invalid compressed data")
    ELSE LET n == bs[4] + 256 * bs[5]
         IN  IF bs[6] # 255 - bs[4] \/ bs[7] # 255 - bs[5] \/ Len(bs) # 11 + n
                 THEN Threw("Decoding failed: invalid compressed data")
             ELSE LET body == SubSeq(bs, 8, 7 + n)
                  IN  IF SubSeq(bs, 8 + n, 11 + n) # Adler32(body)
                          THEN Threw("Decoding failed: invalid compressed data")
                      ELSE Returned(body)

SaltLength == 16

\* byte i (1-based) of the keystream
KeyStream(pass, salt, counter, i) ==
    LET p == Utf8Encode(pass)
    IN  (SumRange(p, 1, Len(p)) + 7 * salt[1] + 13 * counter[SaltLength] + 31 * i) % 256

encrypt(bs, pass, salt, counter) ==
    salt \o counter \o [i \in 1..Len(bs) |-> BitXor(bs[i], KeyStream(pass, salt, counter, i))]

decrypt(bs, pass) ==
    IF Len(bs) < 2 * SaltLength + 1 THEN Threw("Decoding failed: Encrypted data too short")
    ELSE LET salt == SubSeq(bs, 1, SaltLength)
             counter == SubSeq(bs, SaltLength + 1, 2 * SaltLength)
             ciphertext == SubSeq(bs, 2 * SaltLength + 1, Len(bs))
         IN  Returned([i \in 1..Len(ciphertext) |->
                          BitXor(ciphertext[i], KeyStream(pass, salt, counter, i))])

----------------------------------------------------------------------------
(* ZWCTextCodec: base-6 digits, sentinels, encodeText and decodeText *)

ZWC_MAP == <<8203, 8204, 8205, 65279, 8288, 8289>>

START_SENTINEL == <<8203, 8204, 8203>>
END_SENTINEL == <<8204, 8203, 8204>>

IsZWC(u) == \E d \in 1..Len(ZWC_MAP) : ZWC_MAP[d] = u

IsNotZWC(u) == ~IsZWC(u)

\* str.replace of a pattern without the g flag: the first run only
StripFirstZWCRun(str) ==
    LET zwc == {i \in 1..Len(str) : IsZWC(str[i])}
    IN  IF zwc = {} THEN str
        ELSE LET first == CHOOSE i \in zwc : \A j \in zwc : i <= j
                 after == {i \in first..Len(str) : ~IsZWC(str[i])}
                 next == IF after = {} THEN Len(str) + 1
                         ELSE CHOOSE i \in after : \A j \in after : i <= j
             IN  SubSeq(str, 1, first - 1) \o SubSeq(str, next, Len(str))

\* str.replace(ZWC_PATTERN, "")
StripZWC(str) == SelectSeq(str, IsNotZWC)

\* the digits pushed in the order they are computed, least significant first
Base6DigitLeastFirst(v, j) ==
    IF j = 0 THEN v % 6
    ELSE IF j = 1 THEN (v \div 6) % 6
    ELSE IF j = 2 THEN (v \div 36) % 6
    ELSE (v \div 216) % 6

\* digit j (0 the most significant) of the four base-6 digits of a byte
Base6Digit(v, j) ==
    IF j = 0 THEN (v \div 216) % 6
    ELSE IF j = 1 THEN (v \div 36) % 6
    ELSE IF j = 2 THEN (v \div 6) % 6
    ELSE v % 6

bytesToZWC(bs) ==
    [k \in 1..(4 * Len(bs)) |->
        ZWC_MAP[Base6Digit(bs[((k - 1) \div 4) + 1], (k - 1) % 4) + 1]]

\* reverseMap[char]
DigitOf(u) == (CHOOSE d \in 1..Len(ZWC_MAP) : ZWC_MAP[d] = u) - 1

zwcToBytes(zwcString) ==
    LET chars == SelectSeq(zwcString, IsZWC)
        digits == [k \in 1..Len(chars) |-> DigitOf(chars[k])]
    IN  IF Len(digits) % 4 # 0
            THEN Threw("Decoding failed: Invalid ZWC data: length not divisible by 4")
        ELSE Returned([i \in 1..(Len(digits) \div 4) |->
                          ToUint8(digits[4 * i - 3] * 216 + digits[4 * i - 2] * 36
                                      + digits[4 * i - 1] * 6 + digits[4 * i])])

\* the text without the length prefix
BuildStegoTextNoLength(cover, payload) ==
    cover \o START_SENTINEL \o bytesToZWC(payload) \o END_SENTINEL

\* encodeText from the length prefix on
BuildStegoText(cover, payload) ==
    cover \o START_SENTINEL \o bytesToZWC(Uint32LE(Len(payload)) \o payload)
          \o END_SENTINEL

\* str.indexOf(pat), 0-based, -1 when there is none
IndexOf(str, pat) ==
    LET hits == {i \in 1..(Len(str) - Len(pat) + 1) :
                    SubSeq(str, i, i + Len(pat) - 1) = pat}
    IN  IF hits = {} THEN -1 ELSE SetMin(hits) - 1

\* the zero-width characters up to the first character that is not one
extractZWCCharsContiguous(str) ==
    LET others == {i \in 1..Len(str) : ~IsZWC(str[i])}
    IN  IF others = {} THEN str ELSE SubSeq(str, 1, SetMin(others) - 1)

extractZWCChars(str) == SelectSeq(str, IsZWC)

\* view.getUint32(0, true) of four bytes; 2^31 or more is reported as 2^31 - 1
Uint32OfBytes(bs) ==
    IF bs[4] >= 128 THEN 2147483647
    ELSE bs[1] + 256 * bs[2] + 65536 * bs[3] + 16777216 * bs[4]

TextResult(visible, secret) ==
    Returned([visibleText |-> visible, hasSecret |-> TRUE, secretMessage |-> secret])

NoSecret(visible) ==
    Returned([visibleText |-> visible, hasSecret |-> FALSE, secretMessage |-> <<>>])

\* str.replace(ZWC_PATTERN, "") that takes the pattern object as it finds it:
\* matching starts at lastIndex and lastIndex is left after the last match
ReplaceZWCFromLastIndex(str, lastIndex) ==
    LET from == IF lastIndex > Len(str) THEN Len(str) ELSE lastIndex
        zwc == {i \in (from + 1)..Len(str) : IsZWC(str[i])}
    IN  [text |-> Substring(str, 0, from) \o StripZWC(Substring(str, from, Len(str))),
         lastIndex |-> IF zwc = {} THEN 0 ELSE SetMax(zwc)]

\* str.replace(ZWC_PATTERN, "") on the shared pattern object: replace with a
\* global pattern sets lastIndex to 0 before its first match, and the match
\* that fails at the end of the string leaves it 0
ReplaceZWC(str, lastIndex) ==
    LET from == 0
    IN  [text |-> Substring(str, 0, from) \o StripZWC(Substring(str, from, Len(str))),
         lastIndex |-> 0]

\* decodeText up to its first await, with ZWC_PATTERN.lastIndex as the call
\* finds it: either the call is over (done, with its outcome) or the payload
\* bytes are in data; lastIndex is what the call leaves in the pattern object
ScanStegoTextWith(stego, lastIndex) ==
    LET startIdx == IndexOf(stego, START_SENTINEL)
    IN  IF startIdx = -1
            THEN LET stripped == ReplaceZWC(stego, lastIndex)
                 IN  [done |-> TRUE, outcome |-> NoSecret(stripped.text),
                      visibleText |-> <<>>, data |-> <<>>,
                      lastIndex |-> stripped.lastIndex]
        ELSE
        LET stripped == ReplaceZWC(Substring(stego, 0, startIdx), lastIndex)
            visible == stripped.text
            afterStart == Substring(stego, startIdx + Len(START_SENTINEL), Len(stego))
            allZWC == extractZWCChars(afterStart)
        IN  IF Len(allZWC) < 16
                THEN [done |-> TRUE, outcome |-> NoSecret(visible),
                      visibleText |-> visible, data |-> <<>>,
                      lastIndex |-> stripped.lastIndex]
            ELSE
            LET dataLength == Uint32OfBytes(zwcToBytes(Substring(allZWC, 0, 16)).value)
            IN  \* allZWC.length < 16 + dataLength * 4, without the overflow
                IF dataLength > Len(allZWC) \/ Len(allZWC) < 16 + dataLength * 4
                    THEN [done |-> TRUE,
                          outcome |-> Threw("Decoding failed: Incomplete data - payload appears truncated"),
                          visibleText |-> visible, data |-> <<>>,
                          lastIndex |-> stripped.lastIndex]
                ELSE [done |-> FALSE, outcome |-> NotCalled, visibleText |-> visible,
                      data |-> zwcToBytes(Substring(allZWC, 16, 16 + dataLength * 4)).value,
                      lastIndex |-> stripped.lastIndex]

\* decodeText up to its first await when no other call has touched the
\* pattern object
ScanStegoText(stego) == ScanStegoTextWith(stego, 0)

\* new TextDecoder("utf-8", { fatal: true }).decode(data)
Utf8DecodeFatal(bs) ==
    LET r == Utf8DecodeAll(bs)
    IN  IF r.bad THEN Threw("Decoding failed: The encoded data was not valid")
        ELSE Returned(StripBOM(r.out))

\* decodeText after decompress has resolved
FinishDecode(visible, inflated) ==
    IF inflated.threw THEN inflated
    ELSE LET text == Utf8DecodeFatal(inflated.value)
         IN  IF text.threw THEN text ELSE TextResult(visible, text.value)

\* a text laid out again by whoever carries it: from the unit after `from` on,
\* ch is put after every stride-th unit
DistributeEvery(str, from, stride, ch) ==
    LET tail == SubSeq(str, from + 1, Len(str))
    IN  SubSeq(str, 1, from)
            \o [j \in 1..(Len(tail) + Len(tail) \div stride) |->
                   IF (j - 1) % (stride + 1) < stride
                   THEN tail[((j - 1) \div (stride + 1)) * stride + ((j - 1) % (stride + 1)) + 1]
                   ELSE ch]

----------------------------------------------------------------------------
(* ZWCTextCodec: what one call does between two awaits.  A call keeps a log  *)
(* of the requests it issued and saw settle; the streams behind compress and *)
(* decompress deliver their output in chunks.                                *)

Issued(op, arg) == [op |-> op, event |-> "issued", bytes |-> arg]
Settled(op, result) == [op |-> op, event |-> "settled", bytes |-> result]
Rejected(op) == [op |-> op, event |-> "rejected", bytes |-> <<>>]
Built(what) == [op |-> what, event |-> "built", bytes |-> <<>>]

NoStream == [unread |-> <<>>, chunks |-> <<>>, error |-> FALSE]

\* the readable side of a CompressionStream or DecompressionStream whose
\* writable side was given the whole input and closed
OpenStream(result) ==
    IF result.threw THEN [unread |-> <<>>, chunks |-> <<>>, error |-> TRUE]
    ELSE [unread |-> result.value, chunks |-> <<>>, error |-> FALSE]

\* chunks.push(value) for a chunk of n bytes
PushChunk(stream, n) ==
    [stream EXCEPT !.chunks = Append(@, SubSeq(stream.unread, 1, n)),
                   !.unread = SubSeq(@, n + 1, Len(@))]

\* a reader loop that stops at the first chunk
ReaderDoneAfterFirstChunk(stream) == stream.unread = <<>> \/ Len(stream.chunks) >= 1

\* const { done } = await reader.read(); if (done) break
ReaderDone(stream) == stream.unread = <<>>

\* result.set(chunk, offset) for every chunk
RECURSIVE Assemble(_)
Assemble(chunks) ==
    IF chunks = <<>> THEN <<>>
    ELSE Head(chunks) \o Assemble(Tail(chunks))

----------------------------------------------------------------------------
(* The image UI: originalImage, encodedImage and handleEncode.  The blocks  *)
(* of a coefficient set are Int32Array objects: blockHeap holds them by      *)
(* address, and a coefficient set of the UI holds the addresses.             *)

NoImage ==
    [present |-> FALSE, format |-> NullFormat, width |-> 0, height |-> 0, data |-> <<>>,
     hasCoefficients |-> FALSE, jpegCoefficients |-> <<>>]

Image(format, w, h, pixels, hasCoefficients, refs) ==
    [present |-> TRUE, format |-> format, width |-> w, height |-> h, data |-> pixels,
     hasCoefficients |-> hasCoefficients, jpegCoefficients |-> refs]

\* the blocks of a coefficient set in the order of its arrays
BlocksOf(cs) ==
    UNION {UNION {{<<c, r, b>> : b \in 1..Len(cs[c].blocks[r])} :
                     r \in 1..Len(cs[c].blocks)} :
              c \in 1..Len(cs)}

BlocksBefore(cs, c, r, b) ==
    Cardinality({q \in BlocksOf(cs) :
                    \/ q[1] < c
                    \/ q[1] = c /\ q[2] < r
                    \/ q[1] = c /\ q[2] = r /\ q[3] < b})

\* the addresses a coefficient set holds
Addresses(refs) == {refs[q[1]].blocks[q[2]][q[3]] : q \in BlocksOf(refs)}

\* the coefficient values behind the addresses
Deref(refs, heap) ==
    [c \in 1..Len(refs) |->
        [id |-> refs[c].id,
         blocks |-> [r \in 1..Len(refs[c].blocks) |->
                        [b \in 1..Len(refs[c].blocks[r]) |-> heap[refs[c].blocks[r][b]]]]]]

\* new Int32Array(...) for every block of cs: the blocks are put at the
\* addresses after the ones in use
Allocate(cs, heap) ==
    LET free == Len(heap)
        count == Cardinality(BlocksOf(cs))
        refs == [c \in 1..Len(cs) |->
                    [id |-> cs[c].id,
                     blocks |-> [r \in 1..Len(cs[c].blocks) |->
                                    [b \in 1..Len(cs[c].blocks[r]) |->
                                        free + BlocksBefore(cs, c, r, b) + 1]]]]
        at(a) == CHOOSE q \in BlocksOf(cs) : refs[q[1]].blocks[q[2]][q[3]] = a
    IN  [refs |-> refs,
         heap |-> [a \in 1..(free + count) |->
                      IF a <= free THEN heap[a]
                      ELSE cs[at(a)[1]].blocks[at(a)[2]][at(a)[3]]]]

\* a clone by { ...coefficients } alone: the components and their blocks are
\* the original's
cloneJpegCoefficientsShallow(refs, heap) == [refs |-> refs, heap |-> heap]

\* cloneJpegCoefficients on the objects: new component objects, new row
\* arrays, and a new Int32Array for every block, holding the block's values
cloneJpegCoefficientsDeep(refs, heap) ==
    Allocate(cloneJpegCoefficients(Deref(refs, heap)), heap)

\* the heap after the blocks behind refs were written to hold cs
WriteBlocks(refs, heap, cs) ==
    [a \in 1..Len(heap) |->
        IF a \in Addresses(refs)
        THEN LET q == CHOOSE q \in BlocksOf(refs) : refs[q[1]].blocks[q[2]][q[3]] = a
             IN  cs[q[1]].blocks[q[2]][q[3]]
        ELSE heap[a]]

\* the heap without the blocks nothing refers to any more: the blocks that
\* stay keep their order
Collect(heap, live) ==
    LET kept == {a \in 1..Len(heap) : a \in live}
        rank(a) == Cardinality({k \in kept : k <= a})
    IN  [n \in 1..Cardinality(kept) |-> heap[CHOOSE a \in kept : rank(a) = n]]

\* the addresses of refs after Collect
Moved(refs, heap, live) ==
    [c \in 1..Len(refs) |->
        [id |-> refs[c].id,
         blocks |-> [r \in 1..Len(refs[c].blocks) |->
                        [b \in 1..Len(refs[c].blocks[r]) |->
                            Cardinality({k \in 1..Len(heap) :
                                            k \in live /\ k <= refs[c].blocks[r][b]})]]]]

\* validateFileSize(size, maxSize)
validateFileSize(size, maxSize) ==
    IF size <= 0 THEN Threw("File size must be positive")
    ELSE IF size > maxSize THEN Threw("File too large")
    ELSE Returned(<<>>)

MAX_MESSAGE_LENGTH == 10485760

NoFile == [present |-> FALSE, name |-> <<>>, data |-> <<>>]
File(name, content) == [present |-> TRUE, name |-> name, data |-> content]

\* the bytes handleEncode frames for the chosen mode: an error message shown
\* (shown), an exception (threw), or dataToEncode (value)
DataToEncode(mode, message, file) ==
    IF mode = "text"
    THEN IF Len(Trim(message)) = 0
         THEN [shown |-> TRUE] @@ Threw("Please enter a message")
         ELSE IF Len(Utf8Encode(message)) > MAX_MESSAGE_LENGTH
         THEN [shown |-> TRUE] @@ Threw("Message too long")
         ELSE [shown |-> FALSE]
                  @@ Returned(Uint32LE(Len(Utf8Encode(message))) \o Utf8Encode(message))
    ELSE IF ~file.present
         THEN [shown |-> TRUE] @@ Threw("Please select a file")
         ELSE IF validateFileSize(Len(file.data), MAX_EMBED_FILE_SIZE).threw
         THEN [shown |-> FALSE] @@ validateFileSize(Len(file.data), MAX_EMBED_FILE_SIZE)
         ELSE [shown |-> FALSE]
                  @@ Returned(prepareFileHeader(sanitizeFilename(file.name), Len(file.data))
                                  \o file.data)

\* the computed bitCapacity of the page
bitCapacity(image, heap, chroma, depth) ==
    IF ~image.present THEN 0
    ELSE IF image.format = Named("jpeg") /\ image.hasCoefficients
    THEN calculateJpegCoefficientCapacity(Deref(image.jpegCoefficients, heap), chroma)
    ELSE IF image.format = Named("jpeg")
    THEN (image.width * image.height * 12) \div 800
    ELSE calculateBitCapacity(Number(image.width), Number(image.height), depth).value

\* embedDataInImage(imageData, data, bitDepth): the bytes, as bits, embedded
\* by embedLSB
embedDataInImage(img, dataBytes, depth) ==
    embedLSB(img, bytesToBits(dataBytes), depth)

\* embedDataInJpegCoefficients(coefficients, data, useChroma): the bytes, as
\* bits, embedded in place by embedInCoefficients
embedDataInJpegCoefficients(cs, dataBytes, chroma) ==
    embedInCoefficients(cs, bytesToBits(dataBytes), chroma)

----------------------------------------------------------------------------
(* Input domains *)

MaxBytes == 2
MaxRawBits == 9
MaxPasswordLen == 2

RECURSIVE SeqsUpTo(_, _)
SeqsUpTo(S, n) ==
    IF n = 0 THEN {<<>>}
    ELSE LET shorter == SeqsUpTo(S, n - 1)
         IN  shorter \cup {Append(s, x) : s \in {t \in shorter : Len(t) = n - 1}, x \in S}

MaxDim == 2
MaxMsgBits == 5
MaxAC == 2
MaxJpegBits == 4

ByteVals == {0, 1, 128, 165, 255}
\* 'a', U+00E9 (two UTF-8 bytes), U+20AC (three UTF-8 bytes)
PasswordChars == {97, 233, 8364}

\* carrier contents: all zero, all ones, and two mixed ramps
Fills == 0..3
PixelFill(f, n) ==
    [i \in 1..n |->
        CASE f = 0 -> 0
          [] f = 1 -> 255
          [] f = 2 -> (37 * i + 11) % 256
          [] OTHER -> (101 * i + 200) % 256]

\* a payload of n bytes as bits
PayloadBits(p, n) == bytesToBits([i \in 1..n |-> (73 * i + 90 * p) % 256])

\* in range 1..4, and 0 and 5 outside it
BitDepths == 0..5

\* the 10x10 image of the documented capacity scenario
ScenarioDim == 10

\* numbers calculateBitCapacity can be handed: integers around 0, MaxDim and
\* MAX_IMAGE_DIMENSION, halves, NaN and the infinities
Dimensions ==
    {Number(n) : n \in (-1..(MaxDim + 1)) \cup {ScenarioDim, MAX_IMAGE_DIMENSION - 1,
                                                MAX_IMAGE_DIMENSION, MAX_IMAGE_DIMENSION + 1}}
        \cup {Half(n) : n \in {-1, 1, 3, 2 * MAX_IMAGE_DIMENSION - 1,
                               2 * MAX_IMAGE_DIMENSION + 1}}
        \cup {NaN, PositiveInfinity, NegativeInfinity}

\* a block with DC dc, leading AC coefficients ac, last coefficient tail and
\* zeros between
Block(dc, ac, tail) ==
    [i \in 1..BlockSize |->
        IF i = 1 THEN dc
        ELSE IF i - 1 <= Len(ac) THEN ac[i - 1]
        ELSE IF i = BlockSize THEN tail
        ELSE 0]

\* small coefficients and the two ends of the range of an Int32Array element
CoefVals == (-3..3) \cup {Int32Min, Int32Max}

SampleBlocks ==
    {Block(7, <<>>, 0), Block(-4, <<2, -3>>, 0),
     Block(0, <<-1, 3, 1, -2>>, -1024), Block(1, <<1023>>, 1)}

\* one luminance block with every choice of its leading AC coefficients;
\* two luminance blocks in one row; two rows of one luminance block;
\* Y, Cb, Cr of one block each
CoefficientSets ==
    {<<[id |-> 1, blocks |-> << <<Block(5, ac, -2)>> >>]>> : ac \in [1..MaxAC -> CoefVals]}
    \cup {<<[id |-> 1, blocks |-> << <<x, y>> >>]>> : x \in SampleBlocks, y \in SampleBlocks}
    \cup {<<[id |-> 1, blocks |-> << <<x>>, <<y>> >>]>> : x \in SampleBlocks, y \in SampleBlocks}
    \cup {<<[id |-> 1, blocks |-> << <<x>> >>], [id |-> 2, blocks |-> << <<y>> >>],
            [id |-> 3, blocks |-> << <<z>> >>]>> :
               x \in SampleBlocks, y \in SampleBlocks, z \in SampleBlocks}

\* file names: every string of at most MaxNameLen units over NameUnits
\* ("a", ".", "/", " ", U+FEFF, and the two halves of U+1F600), and names
\* at and around the length limit
MaxNameLen == 3

NameUnits == {97, 46, 47, 32, 65279, 55357, 56832}

Repeat(u, n) == [i \in 1..n |-> u]

LongNames ==
    { Repeat(97, MAX_FILENAME_LENGTH),
      Repeat(97, MAX_FILENAME_LENGTH + 1),
      Repeat(97, MAX_FILENAME_LENGTH - 2) \o <<46, 98>>,
      Repeat(97, MAX_FILENAME_LENGTH) \o <<46, 98>>,
      <<47>> \o Repeat(97, MAX_FILENAME_LENGTH - 1),
      Repeat(233, MAX_FILENAME_LENGTH \div 2) \o <<97>>,
      Repeat(233, MAX_FILENAME_LENGTH \div 2 + 1),
      Repeat(8364, MAX_FILENAME_LENGTH \div 3),
      <<97, 46>> \o Repeat(98, MAX_FILENAME_LENGTH),
      Repeat(97, MAX_FILENAME_LENGTH) \o <<46, 98, 46, 99>> }

FileNames == SeqsUpTo(NameUnits, MaxNameLen) \cup LongNames

FileSizes == {0, 1, 255, 256, 65536, MAX_EMBED_FILE_SIZE, MAX_EMBED_FILE_SIZE + 1}

\* byte arrays a decoder can be handed: every array of at most MaxBufLen
\* bytes over BufferBytes, and what is left of a framed file after its
\* tail was cut anywhere in the header or around the end of the payload,
\* or its size field was overwritten with 0xFF bytes
MaxBufLen == 4

BufferBytes == {0, 1, 85, 255}

ReceivedNames ==
    SeqsUpTo(NameUnits, 1)
        \cup {<<97, 46, 98>>, Repeat(97, MAX_FILENAME_LENGTH),
              Repeat(97, MAX_FILENAME_LENGTH + 1)}

Bytes(bs) == [prefix |-> bs, length |-> Len(bs)]

DamagedFrames(name, size) ==
    LET h == prepareFileHeader(name, size)
        n == Len(h)
    IN  {Bytes(SubSeq(h, 1, k)) : k \in ((0..8) \cup ((n - 5)..n)) \cap (0..n)}
        \cup {[prefix |-> h, length |-> n + k] :
                 k \in {0, size - 1, size, size + 1} \cap (0..(MAX_EMBED_FILE_SIZE + 2))}
        \cup {[prefix |-> SubSeq(h, 1, n - 4) \o <<255, 255, 255, k>>,
                length |-> n + size] : k \in {0, 127, 255}}

ShortBuffers == {Bytes(bs) : bs \in SeqsUpTo(BufferBytes, MaxBufLen)}

\* cover texts: "h", ZWSP and ZWNJ, enough to spell the start sentinel,
\* and "hello"; secrets: "h", e-acute and U+FEFF, and "hi"
MaxCoverLen == 3
MaxSecretLen == 2

CoverUnits == {104, 8203, 8204}
SecretUnits == {104, 233, 65279}

CoverTexts == SeqsUpTo(CoverUnits, MaxCoverLen) \cup {<<104, 101, 108, 108, 111>>}
SecretMessages == SeqsUpTo(SecretUnits, MaxSecretLen) \cup {<<104, 105>>}
TextPasswords == {<<>>, <<112, 119>>}

\* texts a decoder can be handed: every string of at most MaxTextLen units
\* over "h", ZWSP, ZWNJ, and every prefix of an encoded text cut in its
\* zero-width tail
MaxTextLen == 4

EncodedSample == BuildStegoText(<<104>>, compress(<<104, 105>>))

ReceivedTexts ==
    SeqsUpTo(CoverUnits, MaxTextLen)
        \cup {SubSeq(EncodedSample, 1, k) : k \in 1..Len(EncodedSample)}

\* byte arrays for the digit mapping: every single byte, and every array
\* of at most MaxDigitBytes bytes over DigitBytes
MaxDigitBytes == 2

DigitBytes == {0, 1, 6, 36, 37, 215, 216, 255}

DigitInputs == {<<v>> : v \in 0..255} \cup SeqsUpTo(DigitBytes, MaxDigitBytes)

\* layouts of a carried text: a space or "x" after every unit, after every
\* MaxStride-th unit at most, or once at the very end, starting up to MaxSkip
\* units after the start sentinel
MaxStride == 2
MaxSkip == 1
LayoutChars == {32, 120}

\* the texts that are laid out again: covers "", "h", the start sentinel
\* and "hello", secrets "h", e-acute and "hi"
LayoutCovers == {<<>>, <<104>>, <<8203, 8204, 8203>>, <<104, 101, 108, 108, 111>>}
LayoutSecrets == {<<104>>, <<233>>, <<104, 105>>}

\* a block whose 63 AC coefficients all carry a bit
DenseBlock(k) ==
    [i \in 1..BlockSize |->
        IF i = 1 THEN 9
        ELSE CASE (i + k) % 3 = 0 -> -2
               [] (i + k) % 3 = 1 -> 3
               [] OTHER -> -3]

\* decoded JPEGs: one luminance block, three components of one block each,
\* and a luminance block with two carrying coefficients
UiCoefficientSets ==
    {<<[id |-> 1, blocks |-> <<<<DenseBlock(0)>>>>]>>,
     <<[id |-> 1, blocks |-> <<<<DenseBlock(0)>>>>],
       [id |-> 2, blocks |-> <<<<DenseBlock(1)>>>>],
       [id |-> 3, blocks |-> <<<<DenseBlock(2)>>>>]>>,
     <<[id |-> 1, blocks |-> <<<<Block(-4, <<2, -3>>, 0)>>>>]>>}

\* what handleImageUpload leaves: the format, the size, the RGBA bytes and,
\* of a JPEG the coefficient reader could read, its coefficients
UiUploads ==
    {[format |-> Named("png"), width |-> 2, height |-> 2, data |-> PixelFill(f, 16),
      hasCoefficients |-> FALSE, coefficients |-> <<>>] : f \in {1, 2}}
        \cup {[format |-> Named("png"), width |-> 4, height |-> 4,
               data |-> PixelFill(3, 64), hasCoefficients |-> FALSE, coefficients |-> <<>>],
              [format |-> Named("webp"), width |-> 4, height |-> 4,
               data |-> PixelFill(2, 64), hasCoefficients |-> FALSE, coefficients |-> <<>>],
              [format |-> Named("jpeg"), width |-> 8, height |-> 8,
               data |-> <<>>, hasCoefficients |-> FALSE, coefficients |-> <<>>]}
        \cup {[format |-> Named("jpeg"), width |-> 8, height |-> 8, data |-> <<>>,
               hasCoefficients |-> TRUE, coefficients |-> cs] : cs \in UiCoefficientSets}

\* " ", "a", "hi!"
UiMessages == {<<32>>, <<97>>, <<104, 105, 33>>}

\* no file chosen, an empty file, and "../" of two bytes
UiFiles == {NoFile, File(<<97>>, <<>>), File(<<46, 46, 47>>, <<85, 0>>)}

\* the mode with the field the mode reads
UiRequests ==
    {[mode |-> "text", message |-> m, file |-> NoFile] : m \in UiMessages}
        \cup {[mode |-> "file", message |-> <<>>, file |-> f] : f \in UiFiles}

UiPasswords == {<<>>, <<112, 119>>}

UiBitDepths == {1, 4}

\* payloads of whole bytes for the decoded JPEGs: as many bytes as the one
\* block, the three blocks and the sparse block can take, and one more
ByteMessages ==
    {bytesToBits([i \in 1..n |-> v]) : n \in {1, 7, 8, 23, 24}, v \in {0, 165, 255}}

\* messages typed on the image page: "a", "hi!", 85 and 341 times "a" (the
\* lengths whose lowest byte is the magic byte), and as many units that begin
\* with U+0001 U+0000 U+0000
TypedLengths == {85, 341}

TypedMessages ==
    {<<97>>, <<104, 105, 33>>}
        \cup {Repeat(97, n) : n \in TypedLengths}
        \cup {<<1, 0, 0>> \o Repeat(97, n - 3) : n \in TypedLengths}

\* what the pixels after the payload give
CarrierTails == {<<>>, <<0, 0>>, <<255, 255, 255>>}

\* what crypto.getRandomValues can return for salt and counter
RandomBlocks == {Repeat(0, SaltLength), Repeat(173, SaltLength)}

\* detected formats: null, the empty name, and names in several spellings
InputFormats ==
    {NullFormat}
        \cup {Named(n) : n \in {"", "png", "jpeg", "webp", "gif", "bmp", "tiff", "apng",
                                "ico", "heic", "avif", "PNG", "JPEG", "Jpeg", "WEBP",
                                "WebP", "GIF", "jpg", "unknown"}}

\* the calls two callers can make at once: encodeText of "hi" or of e-acute
\* into "h", and decodeText of an encoded text, of one encoded under a
\* password, of a text with a stray zero-width character and no sentinel,
\* of one with a zero-width character ahead of the sentinel, and of one cut
\* in its payload; each with and without a password
Callers == {"first", "second"}

EncryptedSample ==
    BuildStegoText(<<104>>, encrypt(compress(<<104, 105>>), <<112, 119>>,
                                    Repeat(173, SaltLength), Repeat(0, SaltLength)))

CallTexts ==
    {EncodedSample, EncryptedSample, <<104, 8203, 104>>,
     <<8205, 104>> \o EncodedSample,
     SubSeq(EncodedSample, 1, Len(EncodedSample) - 9)}

NewCall(kind, cover, secret, stego, pass) ==
    [kind |-> kind, cover |-> cover, secret |-> secret, stego |-> stego,
     password |-> pass, pc |-> "ready", data |-> <<>>, visibleText |-> <<>>,
     stream |-> NoStream, log |-> <<>>, outcome |-> NotCalled]

CallInputs ==
    {NewCall("encode", <<104>>, m, <<>>, p) :
         m \in {<<104, 105>>, <<233>>}, p \in TextPasswords}
        \cup {NewCall("decode", <<>>, <<>>, t, p) : t \in CallTexts, p \in TextPasswords}

\* sizes of the chunks a stream delivers: eight bytes, or all that is left
ChunkSizes(stream) == {n \in {8, Len(stream.unread)} : n >= 1 /\ n <= Len(stream.unread)}

----------------------------------------------------------------------------
(* Variables of the components a driver does not use *)

BitIdle ==
    /\ data = <<>>
    /\ password = <<>>
    /\ encrypted = <<>>
    /\ decrypted = <<>>
    /\ bytes = <<>>
    /\ bits = <<>>
    /\ outBytes = <<>>

PixelIdle ==
    /\ width = 0
    /\ height = 0
    /\ givenWidth = Number(0)
    /\ givenHeight = Number(0)
    /\ fill = 0
    /\ imageData = <<>>
    /\ messageBits = <<>>
    /\ bitDepth = 0
    /\ capacity = NotCalled
    /\ embedded = NotCalled
    /\ extracted = NotCalled

JpegIdle ==
    /\ jpegCoefficients = <<>>
    /\ coeffs = <<>>
    /\ useChroma = FALSE
    /\ jpegEmbedded = NotCalled
    /\ jpegExtracted = NotCalled

HeaderIdle ==
    /\ fileName = <<>>
    /\ fileSize = 0
    /\ sanitizedName = <<>>
    /\ framedName = <<>>
    /\ header = <<>>
    /\ buffer = [prefix |-> <<>>, length |-> 0]
    /\ parsed = NoHeader
    /\ textMessage = <<>>
    /\ framePassword = <<>>
    /\ shown = NothingShown

FormatIdle ==
    /\ inputFormat = NullFormat
    /\ hasOffscreenCanvas = FALSE
    /\ recommendation = [format |-> "", reason |-> "", useWebP |-> FALSE]
    /\ lossy = FALSE

ZwcIdle ==
    /\ coverText = <<>>
    /\ secretMessage = <<>>
    /\ textPassword = <<>>
    /\ encData = <<>>
    /\ stegoText = <<>>
    /\ decVisible = <<>>
    /\ decData = <<>>
    /\ decoded = NotCalled
    /\ zwcBytes = <<>>
    /\ zwcText = <<>>
    /\ zwcBack = NotCalled

CallsIdle ==
    /\ calls = <<>>
    /\ patternLastIndex = 0

UiIdle ==
    /\ blockHeap = <<>>
    /\ originalImage = NoImage
    /\ encodedImage = NoImage
    /\ uiError = ""
    /\ clone = <<>>
    /\ encryptedPayload = <<>>
    /\ chromaChoice = FALSE
    /\ loadedImage = [data |-> <<>>, coefficients |-> <<>>]

----------------------------------------------------------------------------
(* PixelLSBCodec driver: capacity, embed, extract *)

InitPixel ==
    /\ UiIdle
    /\ CallsIdle
    /\ HeaderIdle
    /\ ZwcIdle
    /\ FormatIdle
    /\ BitIdle
    /\ JpegIdle
    /\ \/ /\ pc = "loaded"
          /\ fill \in Fills
          /\ width \in 1..MaxDim
          /\ height \in 1..MaxDim
          /\ bitDepth \in BitDepths
          /\ \/ messageBits \in SeqsUpTo({0, 1}, MaxMsgBits)
             \/ \E p \in 0..1, n \in 1..(((width * height * 3 * 4) \div 8) + 1) :
                    messageBits = PayloadBits(p, n)
          /\ givenWidth = Number(width)
          /\ givenHeight = Number(height)
       \/ /\ pc = "loaded"
          /\ fill \in Fills
          /\ width = ScenarioDim
          /\ height = ScenarioDim
          /\ bitDepth \in 1..4
          /\ \E n \in {(width * height * 3 * bitDepth) \div 8,
                        ((width * height * 3 * bitDepth) \div 8) + 1} :
                 messageBits = PayloadBits(1, n)
          /\ givenWidth = Number(width)
          /\ givenHeight = Number(height)
       \* calculateBitCapacity on numbers of any kind, no image loaded
       \/ /\ pc = "measuring"
          /\ fill = 0
          /\ width = 0
          /\ height = 0
          /\ bitDepth \in BitDepths
          /\ messageBits = <<>>
          /\ givenWidth \in Dimensions
          /\ givenHeight \in Dimensions
    /\ imageData = PixelFill(fill, 4 * width * height)
    /\ capacity = NotCalled
    /\ embedded = NotCalled
    /\ extracted = NotCalled

CalculateBitCapacity ==
    /\ pc \in {"loaded", "measuring"}
    /\ capacity' = calculateBitCapacity(givenWidth, givenHeight, bitDepth)
    /\ pc' = IF pc = "measuring"
             THEN (IF capacity'.threw THEN "refused" ELSE "measured")
             ELSE (IF capacity'.threw THEN "invalid" ELSE "sized")
    /\ UNCHANGED <<exceptPixel, width, height, givenWidth, givenHeight, fill, imageData, messageBits,
                   bitDepth, embedded, extracted>>

EmbedLSB ==
    /\ pc = "sized"
    /\ LET r == embedLSB(imageData, messageBits, bitDepth)
       IN  /\ embedded' = [threw |-> r.threw, error |-> r.error, value |-> r.value]
           /\ imageData' = r.imageData
           /\ pc' = IF r.threw THEN "rejected" ELSE "embedded"
    /\ UNCHANGED <<exceptPixel, width, height, givenWidth, givenHeight, fill,
                   messageBits, bitDepth, capacity, extracted>>

\* extractLSB on the encoded image, or on the carrier when nothing was embedded
ExtractLSB ==
    /\ pc \in {"embedded", "rejected"}
    /\ extracted' = extractLSB(IF pc = "embedded" THEN embedded.value ELSE imageData,
                               Len(messageBits), bitDepth)
    /\ pc' = IF pc = "embedded" THEN "extracted" ELSE "probed"
    /\ UNCHANGED <<exceptPixel, width, height, givenWidth, givenHeight, fill,
                   imageData, messageBits, bitDepth, capacity, embedded>>

NextPixel == CalculateBitCapacity \/ EmbedLSB \/ ExtractLSB

SpecPixel == InitPixel /\ [][NextPixel]_vars

----------------------------------------------------------------------------
(* JPEGCoefficientCodec driver: clone, embed, extract *)

InitJpeg ==
    /\ UiIdle
    /\ CallsIdle
    /\ pc = "jpegLoaded"
    /\ HeaderIdle
    /\ ZwcIdle
    /\ FormatIdle
    /\ BitIdle
    /\ width = 0
    /\ height = 0
    /\ givenWidth = Number(0)
    /\ givenHeight = Number(0)
    /\ fill = 0
    /\ imageData = <<>>
    /\ bitDepth = 0
    /\ capacity = NotCalled
    /\ embedded = NotCalled
    /\ extracted = NotCalled
    /\ \/ /\ jpegCoefficients \in CoefficientSets
          /\ messageBits \in SeqsUpTo({0, 1}, MaxJpegBits)
       \* a decoded JPEG and a payload of whole bytes
       \/ /\ jpegCoefficients \in UiCoefficientSets
          /\ messageBits \in ByteMessages
    /\ coeffs = <<>>
    /\ useChroma \in BOOLEAN
    /\ jpegEmbedded = NotCalled
    /\ jpegExtracted = NotCalled

CloneJpegCoefficients ==
    /\ pc = "jpegLoaded"
    /\ coeffs' = cloneJpegCoefficients(jpegCoefficients)
    /\ pc' = "cloned"
    /\ UNCHANGED <<exceptJpeg, jpegCoefficients, useChroma, jpegEmbedded,
                   jpegExtracted>>

EmbedInCoefficients ==
    /\ pc = "cloned"
    /\ LET r == embedInCoefficients(coeffs, messageBits, useChroma)
       IN  /\ jpegEmbedded' = [threw |-> r.threw, error |-> r.error, value |-> r.value]
           /\ coeffs' = r.coefficients
           /\ pc' = IF r.threw THEN "jpegRejected" ELSE "jpegEmbedded"
    /\ UNCHANGED <<exceptJpeg, jpegCoefficients, useChroma, jpegExtracted>>

ExtractFromCoefficients ==
    /\ pc = "jpegEmbedded"
    /\ jpegExtracted' = extractFromCoefficients(coeffs, Len(messageBits), useChroma)
    /\ pc' = "jpegExtracted"
    /\ UNCHANGED <<exceptJpeg, jpegCoefficients, coeffs, useChroma, jpegEmbedded>>

NextJpeg == CloneJpegCoefficients \/ EmbedInCoefficients \/ ExtractFromCoefficients

SpecJpeg == InitJpeg /\ [][NextJpeg]_vars

----------------------------------------------------------------------------
(* BitStream and CipherMask driver *)

InitBitStream ==
    /\ UiIdle
    /\ CallsIdle
    /\ HeaderIdle
    /\ ZwcIdle
    /\ FormatIdle
    /\ PixelIdle
    /\ JpegIdle
    /\ \/ /\ pc = "bytes"
          /\ bytes \in SeqsUpTo(ByteVals, MaxBytes)
          /\ bits = <<>>
          /\ data = <<>>
          /\ password = <<>>
       \/ /\ pc = "bits"
          /\ bits \in SeqsUpTo({0, 1}, MaxRawBits)
          /\ bytes = <<>>
          /\ data = <<>>
          /\ password = <<>>
       \/ /\ pc = "mask"
          /\ data \in SeqsUpTo(ByteVals, MaxBytes + 1)
          /\ password \in SeqsUpTo(PasswordChars, MaxPasswordLen)
          /\ bytes = <<>>
          /\ bits = <<>>
    /\ encrypted = <<>>
    /\ decrypted = <<>>
    /\ outBytes = <<>>

BytesToBits ==
    /\ pc = "bytes"
    /\ bits' = bytesToBits(bytes)
    /\ pc' = "converted"
    /\ UNCHANGED <<data, password, encrypted, decrypted, bytes, outBytes, exceptBit>>

BitsToBytes ==
    /\ pc \in {"converted", "bits"}
    /\ outBytes' = bitsToBytes(bits)
    /\ pc' = IF pc = "converted" THEN "roundtrip" ELSE "packed"
    /\ UNCHANGED <<data, password, encrypted, decrypted, bytes, bits, exceptBit>>

XorEncrypt ==
    /\ pc = "mask"
    /\ encrypted' = xorEncrypt(data, password)
    /\ pc' = "masked"
    /\ UNCHANGED <<data, password, decrypted, bytes, bits, outBytes, exceptBit>>

XorDecrypt ==
    /\ pc = "masked"
    /\ decrypted' = xorDecrypt(encrypted, password)
    /\ pc' = "unmasked"
    /\ UNCHANGED <<data, password, encrypted, bytes, bits, outBytes, exceptBit>>

NextBitStream == BytesToBits \/ BitsToBytes \/ XorEncrypt \/ XorDecrypt

SpecBitStream == InitBitStream /\ [][NextBitStream]_vars

----------------------------------------------------------------------------
(* FileHeader driver: the file flow of the encoder frames the name (as     *)
(* picked, or sanitized first) and the size, appends the file's bytes, and   *)
(* the decoder parses the result                                             *)

InitHeader ==
    /\ UiIdle
    /\ CallsIdle
    /\ BitIdle
    /\ PixelIdle
    /\ JpegIdle
    /\ ZwcIdle
    /\ FormatIdle
    /\ sanitizedName = <<>>
    /\ framedName = <<>>
    /\ header = <<>>
    /\ parsed = NoHeader
    /\ shown = NothingShown
    /\ \/ /\ pc = "named"
          /\ fileName \in FileNames
          /\ fileSize \in FileSizes
          /\ buffer = [prefix |-> <<>>, length |-> 0]
          /\ textMessage = <<>>
          /\ framePassword = <<>>
       \* a message typed on the image page, in text mode
       \/ /\ pc = "typed"
          /\ fileName = <<>>
          /\ fileSize = 0
          /\ buffer = [prefix |-> <<>>, length |-> 0]
          /\ textMessage \in TypedMessages
          /\ framePassword \in UiPasswords
       \* a decoder handed bytes of any origin
       \/ /\ pc = "received"
          /\ textMessage = <<>>
          /\ framePassword = <<>>
          /\ \/ /\ fileName \in ReceivedNames
                /\ fileSize \in FileSizes
                /\ buffer \in DamagedFrames(fileName, fileSize)
             \/ /\ fileName = <<>>
                /\ fileSize = 0
                /\ buffer \in ShortBuffers

SanitizeFilename ==
    /\ pc = "named"
    /\ sanitizedName' = sanitizeFilename(fileName)
    /\ pc' = "sanitized"
    /\ UNCHANGED <<fileName, fileSize, framedName, header, buffer, parsed, textFrameVars,
                   exceptHeader>>

PrepareFileHeader ==
    /\ pc \in {"named", "sanitized"}
    /\ framedName' = IF pc = "sanitized" THEN sanitizedName ELSE fileName
    /\ header' = prepareFileHeader(framedName', fileSize)
    /\ buffer' = [prefix |-> header', length |-> Len(header') + fileSize]
    /\ pc' = "framed"
    /\ UNCHANGED <<fileName, fileSize, sanitizedName, parsed, textFrameVars,
                   exceptHeader>>

ParseFileHeader ==
    /\ pc \in {"framed", "received"}
    /\ parsed' = parseFileHeader(buffer)
    /\ pc' = IF pc = "framed" THEN "parsed" ELSE "examined"
    /\ UNCHANGED <<fileName, fileSize, sanitizedName, framedName, header, buffer,
                   textFrameVars,
                   exceptHeader>>

\* handleEncode in text mode, and the bytes that extractLSB and bitsToBytes
\* give back for the encoded image: the encrypted frame, and after it what
\* the pixels the payload did not reach hold
HandleEncodeText ==
    /\ pc = "typed"
    /\ \E tail \in CarrierTails :
          buffer' = Bytes(xorEncrypt(FrameText(textMessage), framePassword) \o tail)
    /\ pc' = "carried"
    /\ UNCHANGED <<fileName, fileSize, sanitizedName, framedName, header, parsed,
                   textMessage, framePassword, shown, exceptHeader>>

\* handleDecode from the extracted bytes on
HandleDecode ==
    /\ pc = "carried"
    /\ LET decryptedBytes == Bytes(xorDecrypt(buffer.prefix, framePassword))
       IN  /\ parsed' = parseFileHeader(decryptedBytes)
           /\ shown' = DecodeExtracted(decryptedBytes)
    /\ pc' = "shown"
    /\ UNCHANGED <<fileName, fileSize, sanitizedName, framedName, header, buffer,
                   textMessage, framePassword, exceptHeader>>

NextHeader ==
    \/ SanitizeFilename \/ PrepareFileHeader \/ ParseFileHeader
    \/ HandleEncodeText \/ HandleDecode

SpecHeader == InitHeader /\ [][NextHeader]_vars

----------------------------------------------------------------------------
(* ZWCTextCodec driver: one encodeText call and one decodeText call on its  *)
(* result with the same password, each advancing from one await to the next *)

InitZwc ==
    /\ UiIdle
    /\ CallsIdle
    /\ BitIdle
    /\ PixelIdle
    /\ JpegIdle
    /\ HeaderIdle
    /\ FormatIdle
    /\ textPassword \in TextPasswords
    /\ encData = <<>>
    /\ \/ /\ pc = "textReady"
          /\ coverText \in CoverTexts
          /\ secretMessage \in SecretMessages
          /\ stegoText = <<>>
          /\ zwcBytes = <<>>
       \* a decodeText call on a text of any origin
       \/ /\ pc = "textReceived"
          /\ coverText = <<>>
          /\ secretMessage = <<>>
          /\ stegoText \in ReceivedTexts
          /\ zwcBytes = <<>>
       \* the digit mapping on its own
       \/ /\ pc = "bytesReady"
          /\ coverText = <<>>
          /\ secretMessage = <<>>
          /\ stegoText = <<>>
          /\ zwcBytes \in DigitInputs
    /\ decVisible = <<>>
    /\ decData = <<>>
    /\ decoded = NotCalled
    /\ zwcText = <<>>
    /\ zwcBack = NotCalled

\* encodeText up to await compress(data)
EncodeText ==
    /\ pc = "textReady"
    /\ encData' = Utf8Encode(secretMessage)
    /\ pc' = "compressing"
    /\ UNCHANGED <<coverText, secretMessage, textPassword, stegoText, decVisible,
                   decData, decoded, zwcBytes, zwcText, zwcBack,
                   exceptZwc>>

\* compress resolves; encodeText goes on to await encrypt, or to its return
Compress ==
    /\ pc = "compressing"
    /\ encData' = compress(encData)
    /\ IF Len(textPassword) > 0
       THEN pc' = "encrypting" /\ UNCHANGED stegoText
       ELSE pc' = "encoded" /\ stegoText' = BuildStegoText(coverText, encData')
    /\ UNCHANGED <<coverText, secretMessage, textPassword, decVisible, decData,
                   decoded, zwcBytes, zwcText, zwcBack,
                   exceptZwc>>

\* encrypt resolves; encodeText returns
Encrypt ==
    /\ pc = "encrypting"
    /\ \E salt \in RandomBlocks, counter \in RandomBlocks :
           encData' = encrypt(encData, textPassword, salt, counter)
    /\ stegoText' = BuildStegoText(coverText, encData')
    /\ pc' = "encoded"
    /\ UNCHANGED <<coverText, secretMessage, textPassword, decVisible, decData,
                   decoded, zwcBytes, zwcText, zwcBack,
                   exceptZwc>>

\* the position of a decodeText call: the driver's own round trip uses the
\* names as they are, a call on a received text the names on the right
StageOf(own, stage) ==
    IF own THEN stage
    ELSE CASE stage = "decrypting" -> "rxDecrypting"
           [] stage = "decompressing" -> "rxDecompressing"
           [] stage = "textDecoded" -> "textExamined"
           [] stage = "textFailed" -> "textRefused"

OwnCall == pc \in {"encoded", "decrypting", "decompressing"}

\* decodeText up to its first await, or to its return or throw before it
DecodeText ==
    /\ pc \in {"encoded", "textReceived"}
    /\ LET scan == ScanStegoText(stegoText)
       IN  /\ decVisible' = scan.visibleText
           /\ decData' = scan.data
           /\ IF scan.done
              THEN /\ decoded' = scan.outcome
                   /\ pc' = StageOf(OwnCall, IF scan.outcome.threw THEN "textFailed"
                                                                  ELSE "textDecoded")
              ELSE /\ UNCHANGED decoded
                   /\ pc' = StageOf(OwnCall, IF Len(textPassword) > 0 THEN "decrypting"
                                                                     ELSE "decompressing")
    /\ UNCHANGED <<coverText, secretMessage, textPassword, encData, stegoText,
                   zwcBytes, zwcText, zwcBack,
                   exceptZwc>>

\* decrypt resolves or rejects
Decrypt ==
    /\ pc \in {"decrypting", "rxDecrypting"}
    /\ LET r == decrypt(decData, textPassword)
       IN  IF r.threw
           THEN decoded' = r /\ pc' = StageOf(OwnCall, "textFailed") /\ UNCHANGED decData
           ELSE /\ decData' = r.value
                /\ pc' = StageOf(OwnCall, "decompressing")
                /\ UNCHANGED decoded
    /\ UNCHANGED <<coverText, secretMessage, textPassword, encData, stegoText,
                   decVisible, zwcBytes, zwcText, zwcBack,
                   exceptZwc>>

\* decompress resolves or rejects; decodeText returns or throws
Decompress ==
    /\ pc \in {"decompressing", "rxDecompressing"}
    /\ decoded' = FinishDecode(decVisible, decompress(decData))
    /\ pc' = StageOf(OwnCall, IF decoded'.threw THEN "textFailed" ELSE "textDecoded")
    /\ UNCHANGED <<coverText, secretMessage, textPassword, encData, stegoText,
                   decVisible, decData, zwcBytes, zwcText, zwcBack,
                   exceptZwc>>

\* the encoded text is laid out again on its way to the decoder: characters
\* that are not zero-width are put between the units after the start sentinel
Distribute ==
    /\ pc = "encoded"
    /\ coverText \in LayoutCovers
    /\ secretMessage \in LayoutSecrets
    /\ \E skip \in 0..MaxSkip, ch \in LayoutChars :
          LET from == Len(coverText) + Len(START_SENTINEL) + skip
          IN  \E stride \in (1..MaxStride) \cup {Len(stegoText) - from} :
                 stegoText' = DistributeEvery(stegoText, from, stride, ch)
    /\ pc' = "textReceived"
    /\ UNCHANGED <<coverText, secretMessage, textPassword, encData, decVisible,
                   decData, decoded, zwcBytes, zwcText, zwcBack,
                   exceptZwc>>

\* bytesToZWC on a byte array
BytesToZWC ==
    /\ pc = "bytesReady"
    /\ zwcText' = bytesToZWC(zwcBytes)
    /\ pc' = "digits"
    /\ UNCHANGED <<coverText, secretMessage, textPassword, encData, stegoText,
                   decVisible, decData, decoded, zwcBytes, zwcBack, exceptZwc>>

\* zwcToBytes on the result
ZwcToBytes ==
    /\ pc = "digits"
    /\ zwcBack' = zwcToBytes(zwcText)
    /\ pc' = "bytesBack"
    /\ UNCHANGED <<coverText, secretMessage, textPassword, encData, stegoText,
                   decVisible, decData, decoded, zwcBytes, zwcText, exceptZwc>>

NextZwc ==
    \/ EncodeText \/ Compress \/ Encrypt
    \/ DecodeText \/ Decrypt \/ Decompress
    \/ Distribute
    \/ BytesToZWC \/ ZwcToBytes

SpecZwc == InitZwc /\ [][NextZwc]_vars

----------------------------------------------------------------------------
(* The image page: an image was uploaded, and handleEncode is run any number *)
(* of times with any mode, message, file, password and settings.  A JPEG     *)
(* encode stops at its await of the JPEG writer, which settles later.        *)

InitUi ==
    /\ pc = "page"
    /\ BitIdle
    /\ PixelIdle
    /\ JpegIdle
    /\ HeaderIdle
    /\ ZwcIdle
    /\ FormatIdle
    /\ CallsIdle
    /\ \E up \in UiUploads :
          LET stored == Allocate(up.coefficients, <<>>)
          IN  /\ blockHeap = stored.heap
              /\ originalImage = Image(up.format, up.width, up.height, up.data,
                                       up.hasCoefficients, stored.refs)
              /\ loadedImage = [data |-> up.data, coefficients |-> up.coefficients]
    /\ encodedImage = NoImage
    /\ uiError = ""
    /\ clone = <<>>
    /\ encryptedPayload = <<>>
    /\ chromaChoice = FALSE

\* handleEncode up to its first await after the embedding
HandleEncode ==
    /\ pc = "page"
    /\ \E request \in UiRequests, pass \in UiPasswords, chroma \in BOOLEAN,
          depth \in UiBitDepths :
          LET framed == DataToEncode(request.mode, request.message, request.file)
              encryptedData == IF Len(pass) # 0 THEN xorEncrypt(framed.value, pass)
                           ELSE framed.value
              requiredBytes == Len(framed.value)
          IN  IF framed.threw
              THEN /\ uiError' = framed.error
                   /\ UNCHANGED <<pc, blockHeap, originalImage, encodedImage, clone,
                                  encryptedPayload, chromaChoice>>
              ELSE IF requiredBytes > bitCapacity(originalImage, blockHeap, chroma, depth)
              THEN /\ uiError' = "Message too large"
                   /\ UNCHANGED <<pc, blockHeap, originalImage, encodedImage, clone,
                                  encryptedPayload, chromaChoice>>
              ELSE IF originalImage.format = Named("jpeg") /\ originalImage.hasCoefficients
              THEN LET cloned == cloneJpegCoefficientsDeep(originalImage.jpegCoefficients,
                                                           blockHeap)
                       r == embedDataInJpegCoefficients(Deref(cloned.refs, cloned.heap),
                                                        encryptedData, chroma)
                       written == WriteBlocks(cloned.refs, cloned.heap, r.coefficients)
                       live == Addresses(originalImage.jpegCoefficients)
                                   \cup Addresses(encodedImage.jpegCoefficients)
                   IN  IF r.threw
                       THEN /\ uiError' = "Encoding failed"
                            /\ blockHeap' = Collect(written, live)
                            /\ originalImage' =
                                   [originalImage EXCEPT !.jpegCoefficients =
                                       Moved(@, written, live)]
                            /\ encodedImage' =
                                   [encodedImage EXCEPT !.jpegCoefficients =
                                       Moved(@, written, live)]
                            /\ UNCHANGED <<pc, clone, encryptedPayload, chromaChoice>>
                       ELSE /\ uiError' = ""
                            /\ blockHeap' = written
                            /\ clone' = cloned.refs
                            /\ encryptedPayload' = encryptedData
                            /\ chromaChoice' = chroma
                            /\ pc' = "writing"
                            /\ UNCHANGED <<originalImage, encodedImage>>
              ELSE IF isLossyFormat(originalImage.format)
              THEN /\ uiError' = "Cannot encode into lossy format"
                   /\ UNCHANGED <<pc, blockHeap, originalImage, encodedImage, clone,
                                  encryptedPayload, chromaChoice>>
              ELSE LET r == embedDataInImage(originalImage.data, encryptedData, depth)
                   IN  /\ originalImage' = [originalImage EXCEPT !.data = r.imageData]
                       /\ IF r.threw
                          THEN /\ uiError' = "Encoding failed"
                               /\ UNCHANGED encodedImage
                          ELSE /\ uiError' = ""
                               /\ encodedImage' =
                                      Image(originalImage.format, originalImage.width,
                                            originalImage.height, r.value, FALSE, <<>>)
                       /\ UNCHANGED <<pc, blockHeap, clone, encryptedPayload, chromaChoice>>
    /\ UNCHANGED loadedImage
    /\ UNCHANGED exceptUi

\* encodeJpegFromCoefficients and decodeImage settle: the encoded image takes
\* the clone, or the failure is shown and the clone is dropped
JpegWritten ==
    /\ pc = "writing"
    /\ \E ok \in BOOLEAN :
          LET live == Addresses(originalImage.jpegCoefficients)
                          \cup (IF ok THEN Addresses(clone)
                                ELSE Addresses(encodedImage.jpegCoefficients))
          IN  /\ blockHeap' = Collect(blockHeap, live)
              /\ originalImage' =
                     [originalImage EXCEPT !.jpegCoefficients = Moved(@, blockHeap, live)]
              /\ encodedImage' =
                     IF ok
                     THEN Image(Named("jpeg"), originalImage.width, originalImage.height,
                                <<>>, TRUE, Moved(clone, blockHeap, live))
                     ELSE [encodedImage EXCEPT !.jpegCoefficients =
                              Moved(@, blockHeap, live)]
              /\ uiError' = IF ok THEN "" ELSE "Encoding failed"
    /\ clone' = <<>>
    /\ encryptedPayload' = <<>>
    /\ chromaChoice' = FALSE
    /\ pc' = "page"
    /\ UNCHANGED loadedImage
    /\ UNCHANGED exceptUi

NextUi ==
    \/ HandleEncode
    \/ JpegWritten

SpecUi == InitUi /\ [][NextUi]_vars

----------------------------------------------------------------------------
(* ZWCTextCodec under concurrent callers: each caller has one encodeText or *)
(* decodeText call in flight, and the calls advance in any order from one   *)
(* await to the next.  ZWC_PATTERN is the one object the calls share.       *)

InitCalls ==
    /\ UiIdle
    /\ pc = "calls"
    /\ BitIdle
    /\ PixelIdle
    /\ JpegIdle
    /\ HeaderIdle
    /\ ZwcIdle
    /\ FormatIdle
    /\ calls \in [Callers -> CallInputs]
    /\ patternLastIndex = 0

\* encodeText up to await compress(data)
CallEncodeText(c) ==
    /\ calls[c].kind = "encode"
    /\ calls[c].pc = "ready"
    /\ LET bytesOfSecret == Utf8Encode(calls[c].secret)
       IN  calls' = [calls EXCEPT ![c].data = bytesOfSecret,
                                  ![c].stream = OpenStream(Returned(compress(bytesOfSecret))),
                                  ![c].log = Append(@, Issued("compress", bytesOfSecret)),
                                  ![c].pc = "compressing"]
    /\ UNCHANGED <<pc, patternLastIndex, exceptCalls>>

\* reader.read() of compress or decompress resolves with a chunk
ReadChunk(c) ==
    /\ calls[c].pc \in {"compressing", "decompressing"}
    /\ ~calls[c].stream.error
    /\ ~ReaderDone(calls[c].stream)
    /\ \E n \in ChunkSizes(calls[c].stream) :
           calls' = [calls EXCEPT ![c].stream = PushChunk(@, n)]
    /\ UNCHANGED <<pc, patternLastIndex, exceptCalls>>

\* the reader loop of compress ends and compress resolves; encodeText goes
\* on to await encrypt, or to its return
CompressResolves(c) ==
    /\ calls[c].pc = "compressing"
    /\ ReaderDone(calls[c].stream)
    /\ LET result == Assemble(calls[c].stream.chunks)
           settled == Append(calls[c].log, Settled("compress", result))
       IN  IF Len(calls[c].password) > 0
           THEN calls' = [calls EXCEPT ![c].data = result,
                                      ![c].stream = NoStream,
                                      ![c].log = Append(settled, Issued("encrypt", result)),
                                      ![c].pc = "encrypting"]
           ELSE calls' = [calls EXCEPT ![c].data = result,
                                      ![c].stream = NoStream,
                                      ![c].log = Append(settled, Built("output")),
                                      ![c].outcome =
                                          Returned(BuildStegoText(calls[c].cover, result)),
                                      ![c].pc = "returned"]
    /\ UNCHANGED <<pc, patternLastIndex, exceptCalls>>

\* encrypt resolves; encodeText returns
EncryptResolves(c) ==
    /\ calls[c].pc = "encrypting"
    /\ \E salt \in RandomBlocks, counter \in RandomBlocks :
           LET result == encrypt(calls[c].data, calls[c].password, salt, counter)
           IN  calls' = [calls EXCEPT ![c].data = result,
                                      ![c].log = Append(Append(@, Settled("encrypt", result)),
                                                        Built("output")),
                                      ![c].outcome =
                                          Returned(BuildStegoText(calls[c].cover, result)),
                                      ![c].pc = "returned"]
    /\ UNCHANGED <<pc, patternLastIndex, exceptCalls>>

\* decodeText up to its first await, or to its return or throw before it
CallDecodeText(c) ==
    /\ calls[c].kind = "decode"
    /\ calls[c].pc = "ready"
    /\ LET scan == ScanStegoTextWith(calls[c].stego, patternLastIndex)
       IN  /\ patternLastIndex' = scan.lastIndex
           /\ IF scan.done
              THEN calls' = [calls EXCEPT ![c].visibleText = scan.visibleText,
                                         ![c].outcome = scan.outcome,
                                         ![c].pc = IF scan.outcome.threw THEN "threw"
                                                   ELSE "returned"]
              ELSE IF Len(calls[c].password) > 0
              THEN calls' = [calls EXCEPT ![c].visibleText = scan.visibleText,
                                         ![c].data = scan.data,
                                         ![c].log = Append(@, Issued("decrypt", scan.data)),
                                         ![c].pc = "decrypting"]
              ELSE calls' = [calls EXCEPT ![c].visibleText = scan.visibleText,
                                         ![c].data = scan.data,
                                         ![c].stream = OpenStream(decompress(scan.data)),
                                         ![c].log = Append(@, Issued("decompress", scan.data)),
                                         ![c].pc = "decompressing"]
    /\ UNCHANGED <<pc, exceptCalls>>

\* decrypt resolves or rejects; decodeText goes on to await decompress, or throws
DecryptSettles(c) ==
    /\ calls[c].pc = "decrypting"
    /\ LET r == decrypt(calls[c].data, calls[c].password)
       IN  IF r.threw
           THEN calls' = [calls EXCEPT ![c].log = Append(@, Rejected("decrypt")),
                                      ![c].outcome = r,
                                      ![c].pc = "threw"]
           ELSE calls' = [calls EXCEPT ![c].data = r.value,
                                      ![c].stream = OpenStream(decompress(r.value)),
                                      ![c].log = Append(Append(@, Settled("decrypt", r.value)),
                                                        Issued("decompress", r.value)),
                                      ![c].pc = "decompressing"]
    /\ UNCHANGED <<pc, patternLastIndex, exceptCalls>>

\* reader.read() of decompress rejects; decodeText throws
DecompressRejects(c) ==
    /\ calls[c].pc = "decompressing"
    /\ calls[c].stream.error
    /\ calls' = [calls EXCEPT ![c].stream = NoStream,
                              ![c].log = Append(@, Rejected("decompress")),
                              ![c].outcome =
                                  FinishDecode(calls[c].visibleText, decompress(calls[c].data)),
                              ![c].pc = "threw"]
    /\ UNCHANGED <<pc, patternLastIndex, exceptCalls>>

\* the reader loop of decompress ends and decompress resolves; decodeText
\* decodes the text and returns, or throws
DecompressResolves(c) ==
    /\ calls[c].pc = "decompressing"
    /\ ~calls[c].stream.error
    /\ ReaderDone(calls[c].stream)
    /\ LET result == Assemble(calls[c].stream.chunks)
           finished == FinishDecode(calls[c].visibleText, Returned(result))
       IN  calls' = [calls EXCEPT ![c].data = result,
                                  ![c].stream = NoStream,
                                  ![c].log = Append(Append(@, Settled("decompress", result)),
                                                    Built("text")),
                                  ![c].outcome = finished,
                                  ![c].pc = IF finished.threw THEN "threw" ELSE "returned"]
    /\ UNCHANGED <<pc, patternLastIndex, exceptCalls>>

NextCalls ==
    \E c \in Callers :
        \/ CallEncodeText(c) \/ ReadChunk(c) \/ CompressResolves(c) \/ EncryptResolves(c)
        \/ CallDecodeText(c) \/ DecryptSettles(c) \/ DecompressRejects(c)
        \/ DecompressResolves(c)

SpecCalls == InitCalls /\ [][NextCalls]_vars

----------------------------------------------------------------------------
(* Output format driver: an image of some detected format is loaded, the   *)
(* output format is recommended, and the saved result, loaded again, is    *)
(* judged by isLossyFormat as the decoder does                              *)

InitFormat ==
    /\ UiIdle
    /\ CallsIdle
    /\ pc = "detected"
    /\ BitIdle
    /\ PixelIdle
    /\ JpegIdle
    /\ HeaderIdle
    /\ ZwcIdle
    /\ inputFormat \in InputFormats
    /\ hasOffscreenCanvas \in BOOLEAN
    /\ recommendation = [format |-> "", reason |-> "", useWebP |-> FALSE]
    /\ lossy = FALSE

GetRecommendedOutputFormat ==
    /\ pc = "detected"
    /\ recommendation' = getRecommendedOutputFormat(inputFormat, hasOffscreenCanvas)
    /\ pc' = "recommended"
    /\ UNCHANGED <<inputFormat, hasOffscreenCanvas, lossy, exceptFormat>>

IsLossyFormat ==
    /\ pc = "recommended"
    /\ lossy' = isLossyFormat(Named(recommendation.format))
    /\ pc' = "judged"
    /\ UNCHANGED <<inputFormat, hasOffscreenCanvas, recommendation, exceptFormat>>

NextFormat == GetRecommendedOutputFormat \/ IsLossyFormat

SpecFormat == InitFormat /\ [][NextFormat]_vars

----------------------------------------------------------------------------
(* Properties of BitStream and CipherMask *)

\* bit k (0 = least significant) of a byte, by arithmetic
BitOf(v, k) == (v \div Pow2(k)) % 2

\* the byte whose bit j is bs[base + j + 1], j = 0..7
ByteOfGroup(bs, base) ==
    bs[base + 1] + 2 * bs[base + 2] + 4 * bs[base + 3] + 8 * bs[base + 4]
        + 16 * bs[base + 5] + 32 * bs[base + 6] + 64 * bs[base + 7]
        + 128 * bs[base + 8]

\* C5: bytesToBits(b) has 8*len(b) bits, least-significant bit of each byte
\* first, bitsToBytes(bytesToBits(b)) = b, and bitsToBytes of a bit array whose
\* length is no multiple of 8 returns floor(len/8) bytes built from the complete
\* groups only (the trailing partial group is dropped).
C5_BitStreamRoundTrip ==
    /\ pc \in {"converted", "roundtrip"} =>
          /\ Len(bits) = 8 * Len(bytes)
          /\ \A k \in 1..Len(bits) : bits[k] \in {0, 1}
          /\ \A i \in 1..Len(bytes) : bytes[i] = ByteOfGroup(bits, 8 * (i - 1))
    /\ pc = "roundtrip" => outBytes = bytes
    /\ pc = "packed" =>
          /\ Len(outBytes) = Len(bits) \div 8
          /\ \A i \in 1..Len(outBytes) : outBytes[i] = ByteOfGroup(bits, 8 * (i - 1))

C5_Witness ==
    /\ pc = "roundtrip"
    /\ bytes = <<165, 1>>
    /\ bits = <<1, 0, 1, 0, 0, 1, 0, 1, 1, 0, 0, 0, 0, 0, 0, 0>>
    /\ outBytes = bytes

\* C6: with a non-empty password byte i of the result is data byte i XOR
\* password byte (i mod number of password bytes) and unmasking the masked data
\* gives the data back; with the empty password the data is returned unchanged.
C6_XorSelfInverse ==
    /\ (pc \in {"masked", "unmasked"} /\ password # <<>>) =>
          LET pb == Utf8Encode(password)
          IN  /\ Len(encrypted) = Len(data)
              /\ \A i \in 1..Len(data) : \A k \in 0..7 :
                    BitOf(encrypted[i], k) =
                        (BitOf(data[i], k) + BitOf(pb[((i - 1) % Len(pb)) + 1], k)) % 2
    /\ (pc = "unmasked" /\ password # <<>>) => decrypted = data
    /\ (pc \in {"masked", "unmasked"} /\ password = <<>>) => encrypted = data

C6_Witness ==
    /\ pc = "unmasked"
    /\ Len(data) = 3
    /\ Len(Utf8Encode(password)) = 2
    /\ encrypted # data
    /\ decrypted = data


----------------------------------------------------------------------------
(* Properties of the PixelLSBCodec *)

\* the buffer the image was loaded with
Carrier == PixelFill(fill, 4 * width * height)

EmbedCalled == pc \in {"embedded", "rejected", "extracted", "probed"}

\* C1: for bitDepth in 1..4 and len(m) <= floor(len(p)/4*3)*bitDepth embedLSB
\* accepts m, and extractLSB of the result with len(m) and the same bitDepth
\* returns m bit for bit.
C1_PixelRoundTrip ==
    /\ (EmbedCalled /\ bitDepth \in 1..4
            /\ Len(messageBits) <= ((Len(Carrier) * 3) \div 4) * bitDepth)
          => ~embedded.threw
    /\ pc = "extracted" =>
          /\ ~extracted.threw
          /\ Len(extracted.value) = Len(messageBits)
          /\ \A k \in 1..Len(messageBits) : extracted.value[k] = messageBits[k]

C1_Witness ==
    /\ pc = "extracted"
    /\ bitDepth = 3
    /\ fill = 2
    /\ messageBits = <<1, 0, 1, 1, 0>>
    /\ extracted.value = messageBits

\* C7: with C = calculateBitCapacity(w, h, d) and d in 1..4, embedLSB of 8*C bits
\* succeeds and embedLSB of 8*(C+1) bits raises the capacity error and leaves
\* the pixel buffer as it was.
C7_PixelCapacityBoundary ==
    (EmbedCalled /\ bitDepth \in 1..4 /\ ~capacity.threw) =>
        /\ Len(messageBits) = 8 * capacity.value => ~embedded.threw
        /\ Len(messageBits) = 8 * (capacity.value + 1) =>
              /\ embedded.threw
              /\ embedded.error = "Message too large"
              /\ imageData = Carrier

C7_Witness ==
    /\ pc = "rejected"
    /\ width = 10
    /\ height = 10
    /\ bitDepth = 1
    /\ capacity = Returned(37)
    /\ Len(messageBits) = 8 * 38
    /\ embedded.error = "Message too large"

\* C9 (as claimed): with bitDepth < 1 or bitDepth > 4 each of
\* calculateBitCapacity, embedLSB and extractLSB raises an error.
C9_BitDepthPrecondition ==
    (bitDepth < 1 \/ bitDepth > 4) =>
        /\ pc \notin {"loaded", "measuring"} => capacity.threw
        /\ EmbedCalled => embedded.threw
        /\ pc \in {"extracted", "probed"} => extracted.threw

\* channel ordinal of byte index i (0-based): non-alpha bytes before it
ChannelsBefore(i) == (i \div 4) * 3 + (i % 4)

\* C10: a successful embedLSB(p, m, d) returns a buffer of p's length that
\* equals p in every alpha byte, in the upper 8-d bits of every byte, and in
\* every byte after the first ceil(len(m)/d) non-alpha bytes.
C10_EmbedFrame ==
    (pc \in {"embedded", "extracted"}) =>
        LET r == embedded.value
            carrying == (Len(messageBits) + bitDepth - 1) \div bitDepth
        IN  /\ Len(r) = Len(Carrier)
            /\ \A i \in 0..(Len(r) - 1) :
                  /\ i % 4 = 3 => r[i + 1] = Carrier[i + 1]
                  /\ r[i + 1] \div Pow2(bitDepth) = Carrier[i + 1] \div Pow2(bitDepth)
                  /\ (i % 4 # 3 /\ ChannelsBefore(i) >= carrying) =>
                        r[i + 1] = Carrier[i + 1]

C10_Witness ==
    /\ pc = "embedded"
    /\ bitDepth = 2
    /\ width * height = 2
    /\ fill = 1
    /\ messageBits = <<0, 1, 0, 0, 1>>
    /\ embedded.value # Carrier


----------------------------------------------------------------------------
(* Properties of the JPEGCoefficientCodec *)

\* C2: when embedInCoefficients accepts m on a clone of c,
\* extractFromCoefficients of the result with len(m) and the same useChroma
\* returns m bit for bit.
C2_JpegRoundTrip ==
    pc = "jpegExtracted" =>
        /\ ~jpegExtracted.threw
        /\ Len(jpegExtracted.value) = Len(messageBits)
        /\ \A k \in 1..Len(messageBits) : jpegExtracted.value[k] = messageBits[k]

C2_Witness ==
    /\ pc = "jpegExtracted"
    /\ Len(jpegCoefficients) = 3
    /\ useChroma
    /\ messageBits = <<1, 1, 0, 1>>
    /\ coeffs[2] # jpegCoefficients[2]
    /\ jpegExtracted.value = messageBits

\* C8 (as claimed): when embedInCoefficients fails with its capacity error,
\* every coefficient of the set passed in has the value it had before the call.
C8_JpegRejectLeavesCarrier ==
    pc = "jpegRejected" => coeffs = jpegCoefficients

\* magnitude outside {0, 1}
Usable(v) == v \notin {-1, 0, 1}

\* C11: after a call of embedInCoefficients, returned or thrown, a
\* coefficient has magnitude outside {0, 1} exactly if it had before the call.
C11_UsabilityInvariant ==
    pc \in {"jpegEmbedded", "jpegRejected", "jpegExtracted"} =>
        \A p \in Positions(jpegCoefficients) :
            Usable(CoefficientAt(coeffs, p)) <=> Usable(CoefficientAt(jpegCoefficients, p))

\* a failing call that turned a coefficient of magnitude 2 into one of
\* magnitude 3, and a negative one among the changed
C11_Witness ==
    /\ pc = "jpegRejected"
    /\ \E p \in Positions(jpegCoefficients) :
           /\ CoefficientAt(jpegCoefficients, p) = 2
           /\ CoefficientAt(coeffs, p) = 3
    /\ \E p \in Positions(jpegCoefficients) :
           /\ CoefficientAt(jpegCoefficients, p) < 0
           /\ CoefficientAt(coeffs, p) # CoefficientAt(jpegCoefficients, p)

----------------------------------------------------------------------------
(* Properties of the FileHeader framer *)

\* no surrogate half without its other half
WellFormed(str) ==
    \A i \in 1..Len(str) :
        /\ IsHighSurrogate(str[i]) => (i < Len(str) /\ IsLowSurrogate(str[i + 1]))
        /\ IsLowSurrogate(str[i]) => (i > 1 /\ IsHighSurrogate(str[i - 1]))

SizeInRange == 0 < fileSize /\ fileSize <= MAX_EMBED_FILE_SIZE

HeaderRoundTrip ==
    /\ parsed.found
    /\ parsed.fileName = sanitizeFilename(framedName)
    /\ parsed.fileSize = fileSize
    /\ parsed.payloadOffset = 2 + Len(Utf8Encode(framedName)) + 4

DeclaredNameLen == ByteAt(buffer, 1)

HoldsSizeField == buffer.length >= 2 + DeclaredNameLen + 4

DeclaredSize == GetUint32LE(buffer, 2 + DeclaredNameLen)

\* C12: parseFileHeader returns for every byte array, of any length; it
\* returns null when the first byte is not 0x55, when the declared size is 0
\* or above MAX_EMBED_FILE_SIZE, and when 2 + nameLen + 4 + declared size
\* exceeds the bytes there are; a header it returns has
\* payloadOffset + fileSize <= bytes.length.
C12_ParseNeverRaises ==
    pc \in {"parsed", "examined"} =>
        /\ ~parsed.threw
        /\ (buffer.length = 0 \/ ByteAt(buffer, 0) # MagicByte) => ~parsed.found
        /\ (HoldsSizeField /\ (DeclaredSize = 0 \/ DeclaredSize > MAX_EMBED_FILE_SIZE))
               => ~parsed.found
        /\ (HoldsSizeField /\ (DeclaredSize > buffer.length
                                  \/ 2 + DeclaredNameLen + 4 + DeclaredSize > buffer.length))
               => ~parsed.found
        /\ ~HoldsSizeField => ~parsed.found
        /\ parsed.found => parsed.payloadOffset + parsed.fileSize <= buffer.length

\* a byte array with the magic byte and a name, cut inside its size field
C12_Witness ==
    /\ pc = "examined"
    /\ buffer.length >= 3
    /\ ByteAt(buffer, 0) = MagicByte
    /\ DeclaredNameLen = 1
    /\ buffer.length = 2 + DeclaredNameLen + 3
    /\ ~parsed.found
    /\ ~parsed.threw

\* C16 (as claimed): for every name and size, sanitized names included, the
\* byte at offset 1 of the header of prepareFileHeader is at most 255 and
\* is the number of name bytes after it, and the header has 2 + that byte
\* + 4 bytes.
C16_HeaderWellFormed ==
    pc \in {"framed", "parsed"} =>
        /\ header[2] <= 255
        /\ header[2] = Len(Utf8Encode(framedName))
        /\ Len(header) = 2 + header[2] + 4

\* C17 (as claimed): the result of sanitizeFilename is never empty, holds
\* none of / \ ? % * : | " < >, and does not begin with a dot.
C17_SanitizedIsSafe ==
    pc = "sanitized" =>
        /\ Len(sanitizedName) > 0
        /\ \A i \in 1..Len(sanitizedName) : ~IsHazard(sanitizedName[i])
        /\ sanitizedName[1] # 46

\* the name before sanitizeFilename clamps it
BeforeClamp == Trim(StripLeadingDots(SelectSeq(fileName, IsKept)))

EndsWith(str, suffix) ==
    /\ Len(suffix) <= Len(str)
    /\ SubSeq(str, Len(str) - Len(suffix) + 1, Len(str)) = suffix

\* C18 (as claimed): the result of sanitizeFilename has at most
\* MAX_FILENAME_LENGTH characters, and where a name with an extension (the
\* text from its last dot) is clamped, the result ends with that extension.
C18_SanitizedIsClamped ==
    pc = "sanitized" =>
        /\ Len(sanitizedName) <= MAX_FILENAME_LENGTH
        /\ (Len(BeforeClamp) > MAX_FILENAME_LENGTH /\ LastIndexOfDot(BeforeClamp) >= 0)
               => EndsWith(sanitizedName,
                           Substring(BeforeClamp, LastIndexOfDot(BeforeClamp),
                                     Len(BeforeClamp)))

----------------------------------------------------------------------------
(* Properties of the ZWCTextCodec *)

\* C3: for every cover text, whatever characters it contains, every secret
\* and with or without a password, decodeText applied to the result of
\* encodeText with the same password returns the secret as secretMessage.
C3_TextRoundTrip ==
    pc \in {"textDecoded", "textFailed"} =>
        /\ ~decoded.threw
        /\ decoded.value.hasSecret
        /\ decoded.value.secretMessage = secretMessage

\* a decodeText call has returned or thrown
DecodeOver == pc \in {"textDecoded", "textFailed", "textExamined", "textRefused"}

\* C13: on a text that does not contain the start sentinel decodeText
\* returns, with secretMessage null and visibleText the text without its
\* zero-width alphabet characters.
C13_NoSentinelNoSecret ==
    (DecodeOver /\ IndexOf(stegoText, START_SENTINEL) = -1) =>
        /\ ~decoded.threw
        /\ ~decoded.value.hasSecret
        /\ decoded.value.visibleText = SelectSeq(stegoText, IsNotZWC)

\* a text with two separate runs of zero-width characters and no sentinel
C13_Witness ==
    /\ pc = "textExamined"
    /\ IndexOf(stegoText, START_SENTINEL) = -1
    /\ stegoText = <<8203, 104, 8204, 104>>
    /\ decoded.value.visibleText = <<104, 104>>
    /\ ~decoded.value.hasSecret

\* the zero-width characters after the first start sentinel of the text
ZWCAfterSentinel ==
    extractZWCChars(Substring(stegoText,
                              IndexOf(stegoText, START_SENTINEL) + Len(START_SENTINEL),
                              Len(stegoText)))

\* the length their first 16 encode
PrefixLength == Uint32OfBytes(zwcToBytes(Substring(ZWCAfterSentinel, 0, 16)).value)

\* C14 (as claimed): when the start sentinel is found and the zero-width
\* characters after it are fewer than 16, or fewer than 16 + 4 * length for
\* the length the first 16 encode, decodeText raises a decode failure.
C14_TruncatedRaises ==
    (/\ DecodeOver
     /\ IndexOf(stegoText, START_SENTINEL) # -1
     /\ \/ Len(ZWCAfterSentinel) < 16
        \/ PrefixLength > Len(ZWCAfterSentinel)
        \/ Len(ZWCAfterSentinel) < 16 + 4 * PrefixLength)
    => decoded.threw

\* the value of the four zero-width characters of str from position k
\* (1-based), read as base-6 digits, most significant first
GroupValue(str, k) ==
    216 * DigitOf(str[k]) + 36 * DigitOf(str[k + 1]) + 6 * DigitOf(str[k + 2])
        + DigitOf(str[k + 3])

\* byte j (1-based) of the little-endian 32-bit form of n
LittleEndianByte(n, j) == (n \div Pow2(8 * (j - 1))) % 256

\* C19: encodeText returns the cover, the start sentinel, 16 zero-width
\* characters for the little-endian 32-bit length L of the data after
\* compress (and encrypt), 4 * L zero-width characters for that data, the
\* end sentinel, and nothing else: Len(cover) + 22 + 4 * L characters.
C19_WireFormat ==
    pc \in {"encoded", "decrypting", "decompressing", "textDecoded", "textFailed"} =>
        LET c == Len(coverText)
            L == Len(encData)
        IN  /\ Len(stegoText) = c + 22 + 4 * L
            /\ SubSeq(stegoText, 1, c) = coverText
            /\ SubSeq(stegoText, c + 1, c + 3) = START_SENTINEL
            /\ \A k \in (c + 4)..(c + 19 + 4 * L) : IsZWC(stegoText[k])
            /\ \A j \in 1..4 :
                   GroupValue(stegoText, c + 4 + 4 * (j - 1)) = LittleEndianByte(L, j)
            /\ \A j \in 1..L :
                   GroupValue(stegoText, c + 20 + 4 * (j - 1)) = encData[j]
            /\ SubSeq(stegoText, c + 20 + 4 * L, c + 22 + 4 * L) = END_SENTINEL

\* an encrypted secret appended to a cover that itself spells the sentinel
C19_Witness ==
    /\ pc = "encoded"
    /\ Len(textPassword) > 0
    /\ coverText = START_SENTINEL
    /\ secretMessage = <<104, 105>>
    /\ Len(encData) = 2 * SaltLength + Len(compress(<<104, 105>>))
    /\ Len(stegoText) = 3 + 22 + 4 * Len(encData)

\* C20 (as claimed): for every byte array the string of bytesToZWC holds
\* neither the start sentinel nor the end sentinel as three characters in
\* a row.
C20_SentinelsReserved ==
    pc \in {"digits", "bytesBack"} =>
        /\ IndexOf(zwcText, START_SENTINEL) = -1
        /\ IndexOf(zwcText, END_SENTINEL) = -1

----------------------------------------------------------------------------
(* Properties of the output format *)

\* C15 (as claimed): for every input format, null and unknown names
\* included, with or without OffscreenCanvas, the format that
\* getRecommendedOutputFormat returns is one isLossyFormat calls not lossy.
C15_RecommendsLossless ==
    pc \in {"recommended", "judged"} =>
        /\ ~isLossyFormat(Named(recommendation.format))
        /\ pc = "judged" => ~lossy

----------------------------------------------------------------------------
(* Properties of the ZWCTextCodec calls *)

\* requests issued and not yet settled after the first k events of a log
Outstanding(log, k) ==
    Cardinality({i \in 1..k : log[i].event = "issued"})
        - Cardinality({i \in 1..k : log[i].event \in {"settled", "rejected"}})

\* the events of a kind before event j
Before(log, j, op, event) == {i \in 1..(j - 1) : log[i].op = op /\ log[i].event = event}

\* C21: within one encodeText call compress has resolved, with the whole
\* compressed buffer, before encrypt is issued, and encrypt has resolved
\* before the output is built; within one decodeText call decrypt has
\* resolved before decompress is issued and decompress has resolved, with
\* the whole decompressed buffer, before the text is decoded; and a call
\* never has two requests outstanding.
C21_StageOrdering ==
    \A c \in Callers :
        LET log == calls[c].log
            pass == Len(calls[c].password) > 0
        IN  /\ \A k \in 0..Len(log) : Outstanding(log, k) \in {0, 1}
            /\ \A j \in 1..Len(log) :
                  /\ log[j].event = "settled" /\ log[j].op = "compress" =>
                        \E i \in Before(log, j, "compress", "issued") :
                            log[j].bytes = compress(log[i].bytes)
                  /\ log[j].event = "settled" /\ log[j].op = "decompress" =>
                        \E i \in Before(log, j, "decompress", "issued") :
                            decompress(log[i].bytes) = Returned(log[j].bytes)
                  /\ log[j].event = "issued" /\ log[j].op = "encrypt" =>
                        \E i \in Before(log, j, "compress", "settled") :
                            log[j].bytes = log[i].bytes
                  /\ log[j] = Built("output") =>
                        /\ Outstanding(log, j) = 0
                        /\ Before(log, j, "compress", "settled") # {}
                        /\ pass => Before(log, j, "encrypt", "settled") # {}
                  /\ log[j].event = "issued" /\ log[j].op = "decompress" /\ pass =>
                        \E i \in Before(log, j, "decrypt", "settled") :
                            log[j].bytes = log[i].bytes
                  /\ log[j] = Built("text") =>
                        /\ Outstanding(log, j) = 0
                        /\ Before(log, j, "decompress", "settled") # {}

\* a decodeText call under a password has returned the secret while an
\* encodeText call is between two chunks of its compress
C21_Witness ==
    /\ pc = "calls"
    /\ calls["first"].kind = "encode"
    /\ calls["first"].pc = "compressing"
    /\ Len(calls["first"].stream.chunks) = 1
    /\ calls["first"].stream.unread # <<>>
    /\ calls["second"].kind = "decode"
    /\ Len(calls["second"].password) > 0
    /\ calls["second"].pc = "returned"
    /\ Len(calls["second"].log) = 5
    /\ calls["second"].outcome.value.secretMessage = <<104, 105>>

----------------------------------------------------------------------------
(* Properties of calculateBitCapacity *)

\* x is one of 1, 2, 3, ...
PositiveInteger(x) == x.kind = "finite" /\ x.twice >= 2 /\ x = Number(x.twice \div 2)

\* x is more than MAX_IMAGE_DIMENSION
ExceedsMaximum(x) ==
    x.kind = "Infinity" \/ (x.kind = "finite" /\ x.twice > 2 * MAX_IMAGE_DIMENSION)

\* C22: calculateBitCapacity raises when width or height is not a positive
\* integer or is more than MAX_IMAGE_DIMENSION, and returns
\* floor(width * height * 3 * bitDepth / 8) otherwise.
C22_CapacityValidated ==
    pc \notin {"loaded", "measuring"} =>
        IF \/ ~PositiveInteger(givenWidth) \/ ~PositiveInteger(givenHeight)
           \/ ExceedsMaximum(givenWidth) \/ ExceedsMaximum(givenHeight)
        THEN capacity.threw
        ELSE LET product == (givenWidth.twice \div 2) * (givenHeight.twice \div 2)
                                * 3 * bitDepth
             IN  /\ ~capacity.threw
                 /\ 8 * capacity.value <= product
                 /\ product < 8 * (capacity.value + 1)

\* a width of one and a half was refused
C22_Witness ==
    /\ pc = "refused"
    /\ givenWidth = Half(3)
    /\ givenHeight = Number(2)
    /\ capacity.threw
    /\ capacity.error = "Invalid image dimensions"

----------------------------------------------------------------------------
(* Properties of embedInCoefficients: sign, frame, capacity *)

EmbedInCoefficientsCalled == pc \in {"jpegEmbedded", "jpegRejected", "jpegExtracted"}

SameSign(c, d) == (c > 0 <=> d > 0) /\ (c < 0 <=> d < 0)

\* the magnitude of c without its bit 0
MagnitudeAboveBit0(c) == IF c >= 0 THEN c \div 2 ELSE -((c + 1) \div 2)

\* C23 (as claimed): after embedInCoefficients every coefficient has the sign
\* it had before, and its magnitude differs from the old one in bit 0 at most.
C23_SignAndLowBit ==
    EmbedInCoefficientsCalled =>
        \A p \in Positions(jpegCoefficients) :
            LET before == CoefficientAt(jpegCoefficients, p)
                after == CoefficientAt(coeffs, p)
            IN  /\ SameSign(before, after)
                /\ MagnitudeAboveBit0(before) = MagnitudeAboveBit0(after)

\* position p comes before position q in the order of the loops:
\* component, row, block, index
Precedes(p, q) ==
    \E k \in 1..4 : p[k] < q[k] /\ \A j \in 1..(k - 1) : p[j] = q[j]

\* the positions embedInCoefficients may write: AC coefficients of magnitude
\* outside {0, 1} in the components that carry payload
Carrying(cs, chroma) ==
    {p \in Positions(cs) :
        /\ p[4] # 1
        /\ Usable(CoefficientAt(cs, p))
        /\ chroma \/ cs[p[1]].id = 1}

\* C24: embedInCoefficients changes no DC coefficient, no coefficient whose
\* value is 0, 1 or -1, no coefficient of a component with id other than 1
\* when useChroma is false, and no coefficient after the one that takes the
\* last payload bit, the coefficients taking the bits in the order of the
\* loops.
C24_EmbedFrame ==
    EmbedInCoefficientsCalled =>
        LET carrying == Carrying(jpegCoefficients, useChroma)
        IN  \A p \in Positions(jpegCoefficients) :
                CoefficientAt(coeffs, p) # CoefficientAt(jpegCoefficients, p) =>
                    /\ p[4] # 1
                    /\ CoefficientAt(jpegCoefficients, p) \notin {0, 1, -1}
                    /\ useChroma \/ jpegCoefficients[p[1]].id = 1
                    /\ Cardinality({q \in carrying : q = p \/ Precedes(q, p)})
                           <= Len(messageBits)

\* a call without chroma that changed a luminance coefficient, left a
\* usable luminance coefficient after the last bit, and had usable chroma
\* coefficients to leave alone
C24_Witness ==
    /\ pc = "jpegEmbedded"
    /\ ~useChroma
    /\ Len(jpegCoefficients) = 3
    /\ Len(messageBits) = 1
    /\ coeffs # jpegCoefficients
    /\ Cardinality(Carrying(jpegCoefficients, FALSE)) > 1
    /\ Cardinality(Carrying(jpegCoefficients, TRUE)) > Cardinality(Carrying(jpegCoefficients, FALSE))

\* C25: across any number of encodes on the image page the original carrier
\* stays as it was loaded: its pixel bytes and its coefficient values are the
\* loaded ones, the clone being written shares no block with it, and the
\* encoded image's coefficients are blocks of their own
C25_OriginalPreserved ==
    pc \in {"page", "writing"} =>
        /\ originalImage.data = loadedImage.data
        /\ Deref(originalImage.jpegCoefficients, blockHeap) = loadedImage.coefficients
        /\ Addresses(clone) \cap Addresses(originalImage.jpegCoefficients) = {}
        /\ Addresses(encodedImage.jpegCoefficients)
               \cap Addresses(originalImage.jpegCoefficients) = {}

\* a JPEG encode has written its payload into the clone, which now differs
\* from the original's coefficients, while an earlier encode's result is shown
C25_Witness ==
    /\ pc = "writing"
    /\ encodedImage.present
    /\ Deref(clone, blockHeap) # Deref(originalImage.jpegCoefficients, blockHeap)
    /\ Deref(encodedImage.jpegCoefficients, blockHeap)
           # Deref(originalImage.jpegCoefficients, blockHeap)

\* a lossless image was encoded and the encoded pixels differ from the original's
C25_PixelWitness ==
    /\ pc = "page"
    /\ encodedImage.present
    /\ ~encodedImage.hasCoefficients
    /\ encodedImage.data # originalImage.data

\* decodeText run from its call to its return or throw
DecodeTextAlone(stego, pw) ==
    LET scan == ScanStegoText(stego)
        plain == IF Len(pw) > 0 THEN decrypt(scan.data, pw) ELSE Returned(scan.data)
    IN  IF scan.done THEN scan.outcome
        ELSE IF plain.threw THEN plain
        ELSE FinishDecode(scan.visibleText, decompress(plain.value))

\* C26: when characters that are not zero-width were put between the units
\* after the start sentinel of an encodeText result, decodeText ends as it
\* ends on the result itself: it throws in the same cases and returns the
\* same secretMessage
C26_ScanNotContiguous ==
    (pc \in {"textExamined", "textRefused"} /\ encData # <<>>) =>
        LET alone == DecodeTextAlone(BuildStegoText(coverText, encData), textPassword)
        IN  /\ decoded.threw = alone.threw
            /\ ~decoded.threw =>
                   /\ decoded.value.hasSecret = alone.value.hasSecret
                   /\ decoded.value.secretMessage = alone.value.secretMessage

\* a text with other characters between its payload units was decoded to the
\* secret that was encoded
C26_Witness ==
    /\ pc = "textExamined"
    /\ encData # <<>>
    /\ secretMessage # <<>>
    /\ decoded.value.secretMessage = secretMessage
    /\ \E i \in (Len(coverText) + Len(START_SENTINEL) + 2)..(Len(stegoText) - 1) :
          /\ ~IsZWC(stegoText[i])
          /\ IsZWC(stegoText[i - 1])
          /\ IsZWC(stegoText[i + 1])

\* C27: bytesToZWC writes every byte as exactly four characters of the
\* alphabet whose digits d0..d3, each in 0..5, give the byte as
\* d0*216 + d1*36 + d2*6 + d3, and zwcToBytes of the string is the byte array
C27_DigitMappingExact ==
    /\ pc \in {"digits", "bytesBack"} =>
          /\ Len(zwcText) = 4 * Len(zwcBytes)
          /\ \A i \in 1..Len(zwcBytes) :
                /\ \A k \in (4 * i - 3)..(4 * i) :
                      \E d \in 0..5 : ZWC_MAP[d + 1] = zwcText[k]
                /\ zwcBytes[i] = DigitOf(zwcText[4 * i - 3]) * 216
                                     + DigitOf(zwcText[4 * i - 2]) * 36
                                     + DigitOf(zwcText[4 * i - 1]) * 6
                                     + DigitOf(zwcText[4 * i])
    /\ pc = "bytesBack" =>
          /\ ~zwcBack.threw
          /\ zwcBack.value = zwcBytes

\* the bytes 255 and 6, whose digits are 1,1,0,3 and 0,0,1,0, went through
\* bytesToZWC and zwcToBytes
C27_Witness ==
    /\ pc = "bytesBack"
    /\ zwcBytes = <<255, 6>>
    /\ zwcText = <<ZWC_MAP[2], ZWC_MAP[2], ZWC_MAP[1], ZWC_MAP[4],
                   ZWC_MAP[1], ZWC_MAP[1], ZWC_MAP[2], ZWC_MAP[1]>>
    /\ zwcBack.value = <<255, 6>>

\* C28: embedInCoefficients succeeds exactly when the payload has no more
\* bits than there are AC coefficients of magnitude outside {0, 1} in the
\* selected components, the number calculateJpegCoefficientCapacity divides
\* by 8; a payload of at most calculateJpegCoefficientCapacity bytes embeds
C28_JpegCapacityExact ==
    EmbedInCoefficientsCalled =>
        /\ ~jpegEmbedded.threw
               <=> Len(messageBits) <= UsableCoefficientCount(jpegCoefficients, useChroma)
        /\ Len(messageBits) <= 8 * calculateJpegCoefficientCapacity(jpegCoefficients, useChroma)
               => pc # "jpegRejected"

\* a payload of 7 bytes went into a luminance block of 63 usable coefficients,
\* with a coefficient to spare
C28_Witness ==
    /\ pc = "jpegEmbedded"
    /\ calculateJpegCoefficientCapacity(jpegCoefficients, useChroma) = 7
    /\ Len(messageBits) = 56
    /\ coeffs # jpegCoefficients

\* C29 (as claimed): a message typed in text mode, framed as its length in
\* four bytes and its UTF-8 bytes and followed by any carrier bytes, is never
\* taken for a file: parseFileHeader returns null on the decrypted bytes and
\* handleDecode shows the message.
C29_TextNeverFile ==
    pc = "shown" =>
        /\ ~parsed.found
        /\ shown = ShownText(textMessage)

\* what an encodeText call can return when it runs alone: one text for each
\* salt and counter the random source can give
EncodeTextAlone(cover, secret, pw) ==
    LET packed == compress(Utf8Encode(secret))
    IN  IF Len(pw) > 0
        THEN {Returned(BuildStegoText(cover, encrypt(packed, pw, salt, counter))) :
                 salt \in RandomBlocks, counter \in RandomBlocks}
        ELSE {Returned(BuildStegoText(cover, packed))}

\* C30: whatever the order in which the calls in flight go from one await to
\* the next, a call that has returned or thrown ended as it ends when it runs
\* alone, and ZWC_PATTERN, the one object the calls share that can change,
\* is left between any two steps as it was before the first call
C30_CallsDoNotInterfere ==
    /\ patternLastIndex = 0
    /\ \A c \in Callers :
          calls[c].pc \in {"returned", "threw"} =>
              IF calls[c].kind = "encode"
              THEN calls[c].outcome
                       \in EncodeTextAlone(calls[c].cover, calls[c].secret, calls[c].password)
              ELSE calls[c].outcome = DecodeTextAlone(calls[c].stego, calls[c].password)

\* a decodeText call has stripped a zero-width character with ZWC_PATTERN and
\* returned, while another decodeText call, which used the pattern before it,
\* is still reading the chunks of its decompress
C30_Witness ==
    /\ pc = "calls"
    /\ calls["first"].kind = "decode"
    /\ calls["first"].pc = "decompressing"
    /\ Len(calls["first"].stream.chunks) = 1
    /\ calls["second"].kind = "decode"
    /\ calls["second"].stego = <<104, 8203, 104>>
    /\ calls["second"].pc = "returned"
    /\ calls["second"].outcome = NoSecret(<<104, 104>>)

====
